---- MODULE Spec2Model ----
(***************************************************************************)
(* Model of the local RAG service: the ask routes (routes/rag.js) with the *)
(* context-budget negotiator in its batch and streaming variants, direct   *)
(* mode, the streaming call with its client-disconnect handling and the    *)
(* decoder of the upstream line-delimited token stream; and of folder      *)
(* ingestion (routes/folderIngest.js): file discovery and chunking.        *)
(*                                                                         *)
(* The specifications that share the module:                               *)
(*   Spec          one ask request (POST /ask or POST /ask/stream) from    *)
(*                 the request body to its response.                       *)
(*   SpecDecode    the data/end handlers of streamAnswer fed with an       *)
(*                 upstream byte stream cut into arbitrary chunks.         *)
(*   SpecDiscover  getEligibleFiles walking a folder.                      *)
(*   SpecChunk     chunkText, one step per loop iteration; SpecChunkFair   *)
(*                 is the same with the loop never stalling.               *)
(*   SpecStore     db/service.js: concurrent saveDocumentWithEmbedding     *)
(*                 calls and getDocuments.                                 *)
(*   SpecFilter    filterRowsByFilePath.                                   *)
(*   SpecIngest    one POST /ingest/folder request over the files found.   *)
(*   SpecRequest   one request to any route, POST /ingest included.        *)
(*   SpecReingest  the same folder request sent again after a live run.    *)
(*   SpecFallback  generateEmbeddingWithFallback on texts of any length.   *)
(*   SpecScore     cosineSimilarity and scoreRows on small vectors.        *)
(*   SpecScopedAsk a folder ingestion followed by an ask with its repoTag. *)
(*   SpecConcurrent a folder ingestion with an ad-hoc ingest arriving      *)
(*                 while it runs, interleaved at the await points.         *)
(***************************************************************************)
EXTENDS Integers, Sequences, FiniteSets, TLC

VARIABLES
    \* ---- the ask request (req.body and the rows it selects)
    mode,            \* "batch" (POST /ask) or "stream" (POST /ask/stream)
    question,        \* req.body.question is truthy
    scored,          \* scoreRows(rows, ...): the content length of each ranked document
    filePath,        \* req.body.filePath is truthy
    repoTag,         \* req.body.repoTag is truthy
    skipRag,         \* req.body.skipRag is truthy
    \* ---- what the request has used of retrieval
    embedCalls,      \* number of generateEmbedding calls
    storeReads,      \* number of getDocuments calls
    scoreCalls,      \* number of scoreRows calls
    \* ---- the negotiator's locals
    pc,              \* where the request stands
    contextLimit,    \* let contextLimit
    maxCharsPerDoc,  \* let maxCharsPerDoc
    attempt,         \* the loop variable
    context,         \* the context of the latest prompt: the length of each document slice
    calls,           \* number of POSTs to /api/generate issued so far
    lastErr,         \* the error caught by the latest catch block
    thrown,          \* the error that left the negotiator
    \* ---- the downstream response object (res) and the upstream call
    response,        \* what res.status(..).json(..) / res.json(..) sent
    headersSent,     \* res.headersSent
    writableEnded,   \* res.writableEnded
    written,         \* the attempt index of every res.write that reached the client
    closeListener,   \* handleClose is registered on res "close"
    clientClosed,    \* "no", or the phase in which the client disconnected
    aborted,         \* abortController.abort() was called
    upstreamDestroyed, \* upstream.data.destroy() was called
    \* ---- the token-stream decoder (SpecDecode)
    text,            \* the upstream token stream as characters
    wire,            \* its UTF-8 bytes
    pos,             \* bytes delivered so far
    buffer,          \* let buffer
    out,             \* the characters written to res
    dpc,             \* "open" until the end event has been handled
    \* ---- file discovery (SpecDiscover): the folder and getEligibleFiles' locals
    fsName,          \* the name of every entry of the folder
    fsKind,          \* "file", "dir", "other" (neither) or "absent" for every entry
    gitignore,       \* the paths the matcher of the root .gitignore ignores
    maxFiles,        \* the maxFiles argument
    stack,           \* const stack
    currentDir,      \* const currentDir
    entries,         \* the entries of currentDir the for loop has not visited yet
    results,         \* const results
    discoveryStats,  \* const discoveryStats
    visited,         \* every directory popped so far, in order
    gpc,             \* "loop", "entries" or "returned"
    \* ---- chunkText (SpecChunk): its arguments and locals
    content,         \* the content argument, as characters
    chunkSize,       \* the chunkSize argument
    chunkOverlap,    \* the chunkOverlap argument
    start,           \* the loop variable
    chunks,          \* const chunks, or the returned array
    windows,         \* [start, end) of every chunk pushed
    cpc,             \* "entry", "loop" or "returned"
    \* ---- the document store (db/service.js)
    db,              \* the rows of table documents
    diskFile,        \* the rows in the file written by the latest persistDatabase
    persistCalls,    \* number of persistDatabase calls
    saving,          \* per caller: the saveDocumentWithEmbedding call in flight
    saveCalls,       \* number of saveDocumentWithEmbedding calls
    storeEmbedCalls, \* number of generateEmbedding calls made by saves
    lastWrite,       \* per id: the row of the latest save that completed
    rows,            \* the result of the latest getDocuments
    queryTag,        \* its repoTag option
    \* ---- filterRowsByFilePath (SpecFilter)
    candIds,         \* the id of every row passed in
    pathFilter,      \* the filePath argument
    filtered,        \* the ids of the rows returned
    fpc,             \* "call" or "returned"
    \* ---- POST /ingest/folder (SpecIngest): req.body, the route's locals, res
    folderPath,      \* req.body.folderPath: "missing", "notDirectory" or "directory"
    dryRun,          \* safeDryRun
    folderRepoTag,   \* req.body.repoTag, as characters
    folderChunkSize, \* req.body.chunkSize (0 for a value Number() || turns away)
    folderChunkOverlap, \* req.body.chunkOverlap (0 likewise)
    files,           \* const files, each with what reading it gives
    fileIndex,       \* number of files the for loop has taken
    chunksOfFile,    \* const chunks: the length of every chunk of the current file
    index,           \* the loop variable of the chunk loop
    ingestedCount,   \* let ingestedCount
    skippedCount,    \* let skippedCount
    failedCount,     \* let failedCount
    chunkedFileCount, \* let chunkedFileCount
    plannedIngestCount, \* let plannedIngestCount
    skippedEmptyOrBinaryCount, \* let skippedEmptyOrBinaryCount
    failures,        \* const failures
    samplePlannedDocuments, \* const samplePlannedDocuments
    processed,       \* relPath of every file the loop body has started on, in order
    flushedAfter,    \* fileIndex at every persistDatabase call of the route, in order
    folderResponse,  \* what res.status(..).json(..) / res.json(..) sent
    ipc,             \* where the route stands
    \* ---- POST /ingest: req.body and res
    adhocText,       \* req.body.text: whether it is given, and its length
    adhocTag,        \* req.body.repoTag
    adhocResponse,   \* what res.status(..).json(..) / res.json(..) sent
    apc,             \* where the route stands
    \* ---- similarity scoring (cosineSimilarity, scoreRows)
    queryEmbedding,  \* the embedding of the question
    docRows,         \* the rows handed to scoreRows: content and parsed embedding
    ranked,          \* what scoreRows returned
    forward,         \* cosineSimilarity(queryEmbedding, a row's embedding)
    backward,        \* cosineSimilarity(the row's embedding, queryEmbedding)
    kpc              \* where the scoring stands

askVars == <<mode, question, scored, filePath, repoTag, skipRag, embedCalls, storeReads, scoreCalls, pc, contextLimit, maxCharsPerDoc, attempt,
             context, calls, lastErr, thrown, response, headersSent, writableEnded,
             written, closeListener, clientClosed, aborted, upstreamDestroyed>>
reqVars == <<mode, question, scored, filePath, repoTag, skipRag>>
retrievalVars == <<embedCalls, storeReads, scoreCalls>>
decodeVars == <<text, wire, pos, buffer, out, dpc>>
discoverVars == <<fsName, fsKind, gitignore, maxFiles, stack, currentDir, entries, results,
                  discoveryStats, visited, gpc>>
chunkVars == <<content, chunkSize, chunkOverlap, start, chunks, windows, cpc>>
storeVars == <<db, diskFile, persistCalls, saving, saveCalls, storeEmbedCalls, lastWrite,
               rows, queryTag>>
filterVars == <<candIds, pathFilter, filtered, fpc>>
folderVars == <<folderPath, dryRun, folderRepoTag, folderChunkSize, folderChunkOverlap, files,
                fileIndex, chunksOfFile, index, ingestedCount, skippedCount, failedCount,
                chunkedFileCount, plannedIngestCount, skippedEmptyOrBinaryCount, failures,
                samplePlannedDocuments, processed, flushedAfter, folderResponse, ipc>>
adhocVars == <<adhocText, adhocTag, adhocResponse, apc>>
scoreVars == <<queryEmbedding, docRows, ranked, forward, backward, kpc>>
ingestVars == <<discoverVars, chunkVars, storeVars, filterVars, folderVars, adhocVars,
                scoreVars>>
vars == <<askVars, decodeVars, ingestVars>>

\* ------------------------------------------------------------------ bounds
MaxDocs == 7
MaxWrites == 2
MaxText == 4
MaxFilesBound == 4
MaxContentLen == 6
MaxChunkSize == 4
MaxChunkOverlap == 4
MaxSaves == 2
MaxIngestFiles == 2
MaxRuns == 2
MaxFallbackSaves == 2

\* ------------------------------------------------------- program constants
maxAttempts == 7
initialContextLimit == 3
maxMatchesCap == 6
initialMaxCharsPerDoc == 2500
minCharsPerDoc == 400
defaultMaxFiles == 2000
maxIngestChars == 12000
embedMinLength == 400
embedLoopAttempts == 5
defaultChunkSize == 3000
minChunkSize == 500
failuresReturned == 25
sampleCap == 25

Min(a, b) == IF a < b THEN a ELSE b
Max(a, b) == IF a > b THEN a ELSE b

\* The content lengths a ranked document may have: one below the floor of
\* 400 characters, one above the initial 2500.
DocLens == {300, 3000}

RECURSIVE SeqsUpTo(_, _)
SeqsUpTo(S, n) ==
    IF n = 0 THEN {<<>>}
    ELSE LET shorter == SeqsUpTo(S, n - 1)
         IN  shorter \cup {Append(s, x) : s \in {t \in shorter : Len(t) = n - 1}, x \in S}

\* The ranked lists a request may meet. Both negotiators read at most the
\* first three documents, so the further ones all get the same length.
RankedLists ==
    SeqsUpTo(DocLens, initialContextLimit)
    \cup {pre \o [i \in 1..k |-> 300] :
            pre \in {s \in SeqsUpTo(DocLens, initialContextLimit) : Len(s) = initialContextLimit},
            k \in 1..(MaxDocs - initialContextLimit)}

\* ------------------------------------------------------------------ errors
NoString == "<undefined>"
CtxPhrase == "model runner: prompt exceeds the context length"
NoErr == [message |-> NoString, dataError |-> NoString, status |-> 0, code |-> NoString]

\* String.prototype.includes("exceeds the context length") on the lower-cased
\* message, for the messages that occur.
ContainsCtxPhrase(m) == m \in {CtxPhrase}

isContextLengthError(e) ==
    LET responseError == e.dataError
        message == IF responseError # NoString THEN responseError ELSE e.message
    IN  message # NoString /\ ContainsCtxPhrase(message)

getUpstreamStatus(e) == e.status

isStreamContextRetryError(e) == isContextLengthError(e) \/ getUpstreamStatus(e) = 400

isUpstreamConnectionError(e) == e.code = "ECONNREFUSED"

isCanceledError(e) == e.code = "ERR_CANCELED"

\* error.response.data.error of a rejected axios.post. With stream: false the
\* body is the parsed JSON, whose error field is the upstream's message or is
\* missing; with responseType "stream" the body is a stream object, whose
\* error field is undefined.
ResponseErrors(m) ==
    IF m = "batch" THEN {CtxPhrase, "other upstream error", NoString} ELSE {NoString}

\* The rejections of axios.post: an HTTP error status, or a refused connection.
PostErrors(m) ==
    {[message |-> "Request failed with status code", dataError |-> d, status |-> s,
      code |-> "ERR_BAD_RESPONSE"] : d \in ResponseErrors(m), s \in {400, 500}}
    \cup {[message |-> "connect ECONNREFUSED", dataError |-> NoString, status |-> 0,
           code |-> "ECONNREFUSED"]}

\* The "error" events of the upstream response stream while it is read: the
\* connection broke; the error carries no response.
StreamErrors ==
    {[message |-> "aborted", dataError |-> NoString, status |-> 0, code |-> c] :
        c \in {"ECONNRESET", "ERR_BAD_RESPONSE"}}

CanceledError ==
    [message |-> "canceled", dataError |-> NoString, status |-> 0, code |-> "ERR_CANCELED"]

ExhaustedBatchError ==
    [message |-> "Unable to generate answer within model context limits",
     dataError |-> NoString, status |-> 0, code |-> NoString]

ExhaustedStreamError ==
    [message |-> "Unable to stream answer within model context limits",
     dataError |-> NoString, status |-> 0, code |-> NoString]

\* ------------------------------------------------------ context assembly
\* scored.slice(0, Math.min(contextLimit, scored.length))
\*       .map((item) => item.content.slice(0, maxCharsPerDoc))
buildContext(sc, limit, maxChars) ==
    [i \in 1..Min(Max(limit, 0), Len(sc)) |-> Min(sc[i], maxChars)]

\* ------------------------------------------------------------- negotiation
\* if (skipRag) of both routes.
NeverDirect(skip) == FALSE
directMode(skip) == skip

\* Math.floor(maxCharsPerDoc * 0.7): for every value the negotiator reaches
\* (2500, 1750, 1225, 857, 599, 419) the double product floors to the same
\* integer as the exact 7 * m / 10.
ScaleDown(m) == (m * 7) \div 10

CanRetryAnyFailure(e, limit, maxChars) == limit > 1 \/ maxChars > minCharsPerDoc
CanRetryTooEager(e, limit, maxChars) == isContextLengthError(e)
canRetryBatch(e, limit, maxChars) ==
    isContextLengthError(e) /\ (limit > 1 \/ maxChars > minCharsPerDoc)

CanRetryStreamAnyFailure(e, sent, limit, maxChars) ==
    limit > 1 \/ maxChars > minCharsPerDoc
canRetryStream(e, sent, limit, maxChars) ==
    ~sent /\ isStreamContextRetryError(e) /\ (limit > 1 \/ maxChars > minCharsPerDoc)

\* The bounds after the shrink at the end of the catch block.
ShrinkNoFloor(limit, maxChars) ==
    IF maxChars > minCharsPerDoc
    THEN [limit |-> limit, chars |-> ScaleDown(maxChars)]
    ELSE [limit |-> limit - 1, chars |-> maxChars]
ShrinkBoth(limit, maxChars) ==
    [limit |-> IF limit > 1 THEN limit - 1 ELSE limit,
     chars |-> Max(minCharsPerDoc, ScaleDown(maxChars))]
ShrinkDocsFirst(limit, maxChars) ==
    IF limit > 1
    THEN [limit |-> limit - 1, chars |-> maxChars]
    ELSE [limit |-> limit, chars |-> Max(minCharsPerDoc, ScaleDown(maxChars))]
shrink(limit, maxChars) ==
    IF maxChars > minCharsPerDoc
    THEN [limit |-> limit, chars |-> Max(minCharsPerDoc, ScaleDown(maxChars))]
    ELSE IF limit > 1
         THEN [limit |-> limit - 1, chars |-> maxChars]
         ELSE [limit |-> limit, chars |-> maxChars]

\* The loop condition  attempt < 7.
LoopOneMore(a) == a <= maxAttempts
loopContinues(a) == a < maxAttempts


\* ---------------------------------------------------------------- responses
NoResponse == [status |-> 0, body |-> NoString]
CtxLimitMsg == "Failed to answer question due to model context length limits"

\* The catch block of POST /ask.
batchFailure(e) ==
    [status |-> 500,
     body |-> IF isContextLengthError(e) THEN CtxLimitMsg ELSE "Failed to answer question"]

\* `Failed to stream answer${upstreamStatus ? ` (upstream status ${upstreamStatus})` : ""}`
streamFailureText(status) ==
    CASE status = 400 -> "Failed to stream answer (upstream status 400)"
      [] status = 500 -> "Failed to stream answer (upstream status 500)"
      [] OTHER -> "Failed to stream answer"

\* The catch block of POST /ask/stream when the head has not been sent.
streamFailure(e) ==
    [status |-> 500,
     body |-> IF isContextLengthError(e) THEN CtxLimitMsg
              ELSE IF isUpstreamConnectionError(e)
                   THEN "Failed to stream answer: Ollama is not reachable at configured OLLAMA_BASE_URL"
                   ELSE streamFailureText(getUpstreamStatus(e))]

\* The 404 of an empty candidate set.
NotFoundTagFirst(hasFilePath, hasRepoTag) ==
    [status |-> 404,
     body |-> IF hasRepoTag THEN "No documents found for repoTag"
              ELSE IF hasFilePath THEN "No documents found for file"
              ELSE "No documents found. Ingest content first."]
notFound(hasFilePath, hasRepoTag) ==
    [status |-> 404,
     body |-> IF hasFilePath THEN "No documents found for file"
              ELSE IF hasRepoTag THEN "No documents found for repoTag"
              ELSE "No documents found. Ingest content first."]

\* ------------------------------------------------------------------- Init
InitDiscoverIdle ==
    /\ fsName = <<>>
    /\ fsKind = <<>>
    /\ gitignore = {}
    /\ maxFiles = 0
    /\ stack = <<>>
    /\ currentDir = <<>>
    /\ entries = <<>>
    /\ results = <<>>
    /\ discoveryStats = <<>>
    /\ visited = <<>>
    /\ gpc = "idle"

InitChunkIdle ==
    /\ content = <<>>
    /\ chunkSize = 0
    /\ chunkOverlap = 0
    /\ start = 0
    /\ chunks = <<>>
    /\ windows = <<>>
    /\ cpc = "idle"

\* null / undefined, as a value no string equals.
NullValue == <<"null">>
Callers == {"c1", "c2"}
DocIds == {"doc1", "doc2"}
NoSave ==
    [active |-> FALSE, id |-> "none", src |-> "none", given |-> 0, len |-> 0,
     tag |-> NullValue, attempt |-> 0]
NoRow == [id |-> "none", content |-> <<>>, embedding |-> <<>>, repoTag |-> NullValue]

InitStoreIdle ==
    /\ db = {}
    /\ diskFile = {}
    /\ persistCalls = 0
    /\ saving = [c \in Callers |-> NoSave]
    /\ saveCalls = 0
    /\ storeEmbedCalls = 0
    /\ lastWrite = [i \in DocIds |-> NoRow]
    /\ rows = {}
    /\ queryTag = NullValue

InitFilterIdle ==
    /\ candIds = {}
    /\ pathFilter = NullValue
    /\ filtered = {}
    /\ fpc = "idle"

InitFolderIdle ==
    /\ folderPath = "missing"
    /\ dryRun = FALSE
    /\ folderRepoTag = NullValue
    /\ folderChunkSize = 0
    /\ folderChunkOverlap = 0
    /\ files = <<>>
    /\ fileIndex = 0
    /\ chunksOfFile = <<>>
    /\ index = 0
    /\ ingestedCount = 0
    /\ skippedCount = 0
    /\ failedCount = 0
    /\ chunkedFileCount = 0
    /\ plannedIngestCount = 0
    /\ skippedEmptyOrBinaryCount = 0
    /\ failures = <<>>
    /\ samplePlannedDocuments = <<>>
    /\ processed = <<>>
    /\ flushedAfter = <<>>
    /\ folderResponse = NoResponse
    /\ ipc = "idle"

NoText == [given |-> FALSE, src |-> <<>>, len |-> 0]

InitAdhocIdle ==
    /\ adhocText = NoText
    /\ adhocTag = NullValue
    /\ adhocResponse = NoResponse
    /\ apc = "idle"

\* No score was computed yet.
NoScore == "none"

InitScoreIdle ==
    /\ queryEmbedding = <<>>
    /\ docRows = <<>>
    /\ ranked = <<>>
    /\ forward = NoScore
    /\ backward = NoScore
    /\ kpc = "idle"

InitIngestIdle ==
    /\ InitAdhocIdle
    /\ InitScoreIdle
    /\ InitDiscoverIdle
    /\ InitChunkIdle
    /\ InitStoreIdle
    /\ InitFilterIdle
    /\ InitFolderIdle

InitDecodeIdle ==
    /\ text = <<>>
    /\ wire = <<>>
    /\ pos = 0
    /\ buffer = <<>>
    /\ out = <<>>
    /\ dpc = "idle"

Init ==
    /\ mode \in {"batch", "stream"}
    /\ question \in BOOLEAN
    /\ scored \in RankedLists
    /\ filePath \in BOOLEAN
    /\ repoTag \in BOOLEAN
    /\ skipRag \in BOOLEAN
    /\ embedCalls = 0
    /\ storeReads = 0
    /\ scoreCalls = 0
    /\ pc = "start"
    /\ contextLimit = 0
    /\ maxCharsPerDoc = 0
    /\ attempt = 0
    /\ context = <<>>
    /\ calls = 0
    /\ lastErr = NoErr
    /\ thrown = NoErr
    /\ response = NoResponse
    /\ headersSent = FALSE
    /\ writableEnded = FALSE
    /\ written = <<>>
    /\ closeListener = FALSE
    /\ clientClosed = "no"
    /\ aborted = FALSE
    /\ upstreamDestroyed = FALSE
    /\ InitDecodeIdle
    /\ InitIngestIdle

\* ------------------------------------------------------------ POST /ask*
\* if (!question) return res.status(400).json({ error: "Missing question" });
MissingQuestion == [status |-> 400, body |-> "Missing question"]
AskMissingQuestion ==
    /\ pc = "start"
    /\ ~question
    /\ response' = MissingQuestion
    /\ headersSent' = TRUE
    /\ writableEnded' = TRUE
    /\ pc' = "done"
    /\ UNCHANGED <<reqVars, retrievalVars, contextLimit, maxCharsPerDoc, attempt, context,
                   calls, lastErr, thrown, written, closeListener, clientClosed, aborted,
                   upstreamDestroyed, decodeVars, ingestVars>>

\* The question is present and skipRag is not set: generateEmbedding(question)
\* is called and awaited.
EmbedStart ==
    /\ pc = "start"
    /\ question
    /\ ~directMode(skipRag)
    /\ embedCalls' = embedCalls + 1
    /\ pc' = "embedAwait"
    /\ UNCHANGED <<reqVars, storeReads, scoreCalls, contextLimit, maxCharsPerDoc, attempt,
                   context, calls, lastErr, thrown, response, headersSent, writableEnded,
                   written, closeListener, clientClosed, aborted, upstreamDestroyed,
                   decodeVars, ingestVars>>

\* generateEmbedding rejects: the catch block of the route.
EmbedFail ==
    \E e \in PostErrors("batch") :
        /\ pc = "embedAwait"
        /\ thrown' = e
        /\ response' = IF mode = "batch" THEN batchFailure(e) ELSE streamFailure(e)
        /\ headersSent' = TRUE
        /\ writableEnded' = TRUE
        /\ pc' = "done"
        /\ UNCHANGED <<reqVars, retrievalVars, contextLimit, maxCharsPerDoc, attempt,
                       context, calls, lastErr, written, closeListener, clientClosed,
                       aborted, upstreamDestroyed, decodeVars, ingestVars>>

\* skipRag: generateDirectAnswer (POST /ask) or streamAnswer with the direct
\* prompt (POST /ask/stream), up to the POST.
DirectStart ==
    /\ pc = "start"
    /\ question
    /\ directMode(skipRag)
    /\ calls' = calls + 1
    /\ pc' = IF mode = "batch" THEN "directAwait" ELSE "postPending"
    /\ UNCHANGED <<reqVars, retrievalVars, contextLimit, maxCharsPerDoc, attempt, context,
                   lastErr, thrown, response, headersSent, writableEnded, written,
                   closeListener, clientClosed, aborted, upstreamDestroyed, decodeVars, ingestVars>>

\* return response.data.response;  return res.json({ answer })
DirectReplyOk ==
    /\ pc = "directAwait"
    /\ response' = [status |-> 200, body |-> "answer"]
    /\ headersSent' = TRUE
    /\ writableEnded' = TRUE
    /\ pc' = "done"
    /\ UNCHANGED <<reqVars, retrievalVars, contextLimit, maxCharsPerDoc, attempt, context,
                   calls, lastErr, thrown, written, closeListener, clientClosed, aborted,
                   upstreamDestroyed, decodeVars, ingestVars>>

\* The POST of generateDirectAnswer rejects: the catch block of POST /ask.
DirectReplyErr ==
    \E e \in PostErrors(mode) :
        /\ pc = "directAwait"
        /\ thrown' = e
        /\ response' = batchFailure(e)
        /\ headersSent' = TRUE
        /\ writableEnded' = TRUE
        /\ pc' = "done"
        /\ UNCHANGED <<reqVars, retrievalVars, contextLimit, maxCharsPerDoc, attempt,
                       context, calls, lastErr, written, closeListener, clientClosed,
                       aborted, upstreamDestroyed, decodeVars, ingestVars>>

\* rows.length === 0 after getDocuments and filterRowsByFilePath: the 404 of
\* both routes.
AskNotFound ==
    /\ pc = "embedAwait"
    /\ Len(scored) = 0
    /\ storeReads' = storeReads + 1
    /\ response' = notFound(filePath, repoTag)
    /\ headersSent' = TRUE
    /\ writableEnded' = TRUE
    /\ pc' = "done"
    /\ UNCHANGED <<reqVars, embedCalls, scoreCalls, contextLimit, maxCharsPerDoc, attempt,
                   context, calls, lastErr, thrown, written, closeListener, clientClosed,
                   aborted, upstreamDestroyed, decodeVars, ingestVars>>

\* const maxMatches = Math.min(6, scored.length);
\* let contextLimit = Math.min(3, maxMatches);
InitialLimitUnclamped(n) == initialContextLimit
initialLimit(n) == Min(initialContextLimit, Min(maxMatchesCap, n))

\* The embedding resolved: getDocuments, filterRowsByFilePath, scoreRows and
\* the first iteration of either negotiator up to its POST.
StartNegotiation(awaiting) ==
    LET limit == initialLimit(Len(scored))
    IN  /\ pc = "embedAwait"
        /\ Len(scored) > 0
        /\ storeReads' = storeReads + 1
        /\ scoreCalls' = scoreCalls + 1
        /\ contextLimit' = limit
        /\ maxCharsPerDoc' = initialMaxCharsPerDoc
        /\ attempt' = 0
        /\ context' = buildContext(scored, limit, initialMaxCharsPerDoc)
        /\ calls' = calls + 1
        /\ pc' = awaiting
        /\ UNCHANGED <<reqVars, embedCalls, lastErr, thrown, response,
                       headersSent, writableEnded, written, closeListener, clientClosed,
                       aborted, upstreamDestroyed, decodeVars, ingestVars>>

BatchStart == mode = "batch" /\ StartNegotiation("batchAwait")

StreamStart == mode = "stream" /\ StartNegotiation("postPending")

\* return response.data.response;  res.json({ answer })
BatchReplyOk ==
    /\ pc = "batchAwait"
    /\ response' = [status |-> 200, body |-> "answer"]
    /\ headersSent' = TRUE
    /\ writableEnded' = TRUE
    /\ pc' = "done"
    /\ UNCHANGED <<reqVars, retrievalVars, contextLimit, maxCharsPerDoc, attempt,
                   context, calls, lastErr, thrown, written, closeListener, clientClosed,
                   aborted, upstreamDestroyed, decodeVars, ingestVars>>

\* The catch block of generateAnswerWithContextFallback, the rest of the loop
\* and, when the error leaves the negotiator, the catch block of POST /ask.
BatchReplyErr ==
    \E e \in PostErrors(mode) :
        /\ pc = "batchAwait"
        /\ lastErr' = e
        /\ IF ~canRetryBatch(e, contextLimit, maxCharsPerDoc)
           THEN /\ thrown' = e
                /\ response' = batchFailure(e)
                /\ headersSent' = TRUE
                /\ writableEnded' = TRUE
                /\ pc' = "done"
                /\ UNCHANGED <<contextLimit, maxCharsPerDoc, attempt, context, calls>>
           ELSE LET s == shrink(contextLimit, maxCharsPerDoc)
                IN  /\ contextLimit' = s.limit
                    /\ maxCharsPerDoc' = s.chars
                    /\ attempt' = attempt + 1
                    /\ IF loopContinues(attempt + 1)
                       THEN /\ context' = buildContext(scored, s.limit, s.chars)
                            /\ calls' = calls + 1
                            /\ pc' = "batchAwait"
                            /\ UNCHANGED <<thrown, response, headersSent, writableEnded>>
                       ELSE /\ thrown' = ExhaustedBatchError
                            /\ response' = batchFailure(ExhaustedBatchError)
                            /\ headersSent' = TRUE
                            /\ writableEnded' = TRUE
                            /\ pc' = "done"
                            /\ UNCHANGED <<context, calls>>
        /\ UNCHANGED <<reqVars, retrievalVars, written, closeListener,
                       clientClosed, aborted, upstreamDestroyed, decodeVars, ingestVars>>


\* ------------------------------------------------------- POST /ask/stream
\* What follows a rejection of streamAnswer: the catch block of
\* streamAnswerWithContextFallback, the rest of its loop (the next iteration
\* up to its POST) and, when the error leaves the negotiator, the catch block
\* of POST /ask/stream. `sent` and `ended` are res.headersSent and
\* res.writableEnded when the rejection is caught.
StreamCatch(e, sent, ended) ==
    /\ lastErr' = e
    /\ closeListener' = FALSE
    /\ IF ~canRetryStream(e, sent, contextLimit, maxCharsPerDoc)
       THEN /\ thrown' = e
            /\ response' = IF ~isCanceledError(e) /\ ~sent THEN streamFailure(e) ELSE response
            /\ headersSent' = TRUE
            /\ writableEnded' = TRUE
            /\ pc' = "done"
            /\ UNCHANGED <<contextLimit, maxCharsPerDoc, attempt, context, calls>>
       ELSE LET s == shrink(contextLimit, maxCharsPerDoc)
            IN  /\ contextLimit' = s.limit
                /\ maxCharsPerDoc' = s.chars
                /\ attempt' = attempt + 1
                /\ IF loopContinues(attempt + 1)
                   THEN /\ context' = buildContext(scored, s.limit, s.chars)
                        /\ calls' = calls + 1
                        /\ pc' = "postPending"
                        /\ headersSent' = sent
                        /\ writableEnded' = ended
                        /\ UNCHANGED <<thrown, response>>
                   ELSE /\ thrown' = ExhaustedStreamError
                        /\ response' = IF ~sent THEN streamFailure(ExhaustedStreamError)
                                       ELSE response
                        /\ headersSent' = TRUE
                        /\ writableEnded' = TRUE
                        /\ pc' = "done"
                        /\ UNCHANGED <<context, calls>>

\* A rejection of streamAnswer called with the direct prompt: the catch block
\* of POST /ask/stream.
DirectStreamCatch(e, sent, ended) ==
    /\ lastErr' = e
    /\ closeListener' = FALSE
    /\ thrown' = e
    /\ response' = IF ~isCanceledError(e) /\ ~sent THEN streamFailure(e) ELSE response
    /\ headersSent' = TRUE
    /\ writableEnded' = TRUE
    /\ pc' = "done"
    /\ UNCHANGED <<contextLimit, maxCharsPerDoc, attempt, context, calls>>

StreamReject(e, sent, ended) ==
    IF directMode(skipRag) THEN DirectStreamCatch(e, sent, ended) ELSE StreamCatch(e, sent, ended)

\* await axios.post(...) rejects: no listener was registered, no header set.
PostReject ==
    \E e \in PostErrors(mode) :
        /\ pc = "postPending"
        /\ StreamReject(e, headersSent, writableEnded)
        /\ UNCHANGED <<reqVars, retrievalVars, written, clientClosed, aborted,
                       upstreamDestroyed, decodeVars, ingestVars>>

\* await axios.post(...) resolves with the upstream head: res.on("close",
\* handleClose), the three setHeader calls, the listeners on upstream.data.
PostResolve ==
    /\ pc = "postPending"
    /\ closeListener' = TRUE
    /\ pc' = "streaming"
    /\ UNCHANGED <<reqVars, retrievalVars, contextLimit, maxCharsPerDoc, attempt,
                   context, calls, lastErr, thrown, response, headersSent, writableEnded,
                   written, clientClosed, aborted, upstreamDestroyed, decodeVars, ingestVars>>

\* A "data" event whose lines carry a response fragment: res.write. On a
\* response whose client is gone the write is dropped.
StreamData ==
    /\ pc = "streaming"
    /\ ~upstreamDestroyed
    /\ clientClosed = "no"
    /\ Len(written) < MaxWrites
    /\ written' = Append(written, attempt)
    /\ headersSent' = TRUE
    /\ UNCHANGED <<reqVars, retrievalVars, pc, contextLimit, maxCharsPerDoc,
                   attempt, context, calls, lastErr, thrown, response, writableEnded,
                   closeListener, clientClosed, aborted, upstreamDestroyed, decodeVars, ingestVars>>

\* The "end" event: the buffered last line may be written, res.end(),
\* resolve(), res.off("close", handleClose), and the route returns.
StreamEnd ==
    \E last \in BOOLEAN :
        /\ pc = "streaming"
        /\ ~upstreamDestroyed
        /\ last => (clientClosed = "no" /\ Len(written) < MaxWrites)
        /\ written' = IF last THEN Append(written, attempt) ELSE written
        /\ headersSent' = TRUE
        /\ writableEnded' = TRUE
        /\ closeListener' = FALSE
        /\ pc' = "done"
        /\ UNCHANGED <<reqVars, retrievalVars, contextLimit, maxCharsPerDoc,
                       attempt, context, calls, lastErr, thrown, response, clientClosed,
                       aborted, upstreamDestroyed, decodeVars, ingestVars>>

\* The "error" event of the upstream stream: res.end() and reject(streamError).
StreamError ==
    \E e \in StreamErrors :
        /\ pc = "streaming"
        /\ ~upstreamDestroyed
        /\ StreamReject(e, TRUE, TRUE)
        /\ UNCHANGED <<reqVars, retrievalVars, written, clientClosed, aborted,
                       upstreamDestroyed, decodeVars, ingestVars>>

\* The "error" event that the aborted request raises on the upstream stream.
StreamCanceled ==
    /\ pc = "streaming"
    /\ aborted
    /\ StreamReject(CanceledError, TRUE, TRUE)
    /\ UNCHANGED <<reqVars, retrievalVars, written, clientClosed, aborted,
                   upstreamDestroyed, decodeVars, ingestVars>>

\* The downstream client disconnects: res emits "close", which runs
\* handleClose when it is registered and nothing otherwise.
ClientClose ==
    /\ mode = "stream"
    /\ pc \in {"postPending", "streaming"}
    /\ clientClosed = "no"
    /\ clientClosed' = pc
    /\ aborted' = (aborted \/ closeListener)
    /\ upstreamDestroyed' = (upstreamDestroyed \/ closeListener)
    /\ UNCHANGED <<reqVars, retrievalVars, pc, contextLimit, maxCharsPerDoc,
                   attempt, context, calls, lastErr, thrown, response, headersSent,
                   writableEnded, written, closeListener, decodeVars, ingestVars>>

Next ==
    \/ AskMissingQuestion
    \/ EmbedStart
    \/ EmbedFail
    \/ DirectStart
    \/ DirectReplyOk
    \/ DirectReplyErr
    \/ AskNotFound
    \/ BatchStart
    \/ BatchReplyOk
    \/ BatchReplyErr
    \/ StreamStart
    \/ PostReject
    \/ PostResolve
    \/ StreamData
    \/ StreamEnd
    \/ StreamError
    \/ StreamCanceled
    \/ ClientClose

Spec == Init /\ [][Next]_vars



\* ------------------------------------------------- the token-stream decoder
\* The characters of the upstream stream, each standing for a piece of text:
\*   "n" a line feed, "s" a blank, "o" the opening {"response":" of a line,
\*   "c" its closing "}, "a" an ASCII letter, "E" a two-byte letter,
\*   "d" a complete object without a response field, "R" U+FFFD.
\* The bytes: the ASCII ones stand for themselves, "h" and "t" are the lead
\* and the continuation byte of "E".
Chars == {"n", "s", "o", "c", "a", "E", "d"}

RECURSIVE Utf8Encode(_)
Utf8Encode(t) ==
    IF t = <<>> THEN <<>>
    ELSE (IF Head(t) = "E" THEN <<"h", "t">> ELSE <<Head(t)>>) \o Utf8Encode(Tail(t))

\* chunk.toString("utf8"): a complete two-byte sequence gives its letter, a
\* lead byte without its continuation or a continuation without its lead
\* gives U+FFFD.
RECURSIVE toStringUtf8(_)
toStringUtf8(b) ==
    IF b = <<>> THEN <<>>
    ELSE IF Head(b) = "h" /\ Len(b) >= 2 /\ b[2] = "t"
         THEN <<"E">> \o toStringUtf8(Tail(Tail(b)))
         ELSE IF Head(b) \in {"h", "t"}
              THEN <<"R">> \o toStringUtf8(Tail(b))
              ELSE <<Head(b)>> \o toStringUtf8(Tail(b))

\* buffer.split("\n")
RECURSIVE split(_)
split(s) ==
    IF \A i \in 1..Len(s) : s[i] # "n" THEN <<s>>
    ELSE LET i == CHOOSE j \in 1..Len(s) : s[j] = "n" /\ \A k \in 1..(j - 1) : s[k] # "n"
         IN  <<SubSeq(s, 1, i - 1)>> \o split(SubSeq(s, i + 1, Len(s)))

\* String.prototype.trim
Whitespace == {"s", "n"}
RECURSIVE trim(_)
trim(s) ==
    IF s = <<>> THEN s
    ELSE IF Head(s) \in Whitespace THEN trim(Tail(s))
    ELSE IF s[Len(s)] \in Whitespace THEN trim(SubSeq(s, 1, Len(s) - 1))
    ELSE s

\* What one trimmed line makes the handler write: data.response when
\* JSON.parse succeeds and the field is a non-empty string, nothing when the
\* line is blank, does not parse or has no such field.
responseOf(line) ==
    IF /\ Len(line) >= 2
       /\ line[1] = "o"
       /\ line[Len(line)] = "c"
       /\ \A i \in 2..(Len(line) - 1) : line[i] \in {"a", "E", "R", "s"}
    THEN SubSeq(line, 2, Len(line) - 1)
    ELSE <<>>

\* for (const line of lines) { ... res.write(data.response) ... }
RECURSIVE writeLines(_)
writeLines(lines) ==
    IF lines = <<>> THEN <<>>
    ELSE responseOf(trim(Head(lines))) \o writeLines(Tail(lines))

InitAskIdle ==
    /\ mode = "stream"
    /\ question = FALSE
    /\ scored = <<>>
    /\ filePath = FALSE
    /\ repoTag = FALSE
    /\ skipRag = FALSE
    /\ embedCalls = 0
    /\ storeReads = 0
    /\ scoreCalls = 0
    /\ pc = "idle"
    /\ contextLimit = 0
    /\ maxCharsPerDoc = 0
    /\ attempt = 0
    /\ context = <<>>
    /\ calls = 0
    /\ lastErr = NoErr
    /\ thrown = NoErr
    /\ response = NoResponse
    /\ headersSent = FALSE
    /\ writableEnded = FALSE
    /\ written = <<>>
    /\ closeListener = FALSE
    /\ clientClosed = "no"
    /\ aborted = FALSE
    /\ upstreamDestroyed = FALSE

\* streamAnswer after the upstream head: an upstream body of valid UTF-8.
InitDecode ==
    /\ InitAskIdle
    /\ InitIngestIdle
    /\ text \in SeqsUpTo(Chars, MaxText)
    /\ wire = Utf8Encode(text)
    /\ pos = 0
    /\ buffer = <<>>
    /\ out = <<>>
    /\ dpc = "open"

\* upstream.data.on("data", ...) with the next k bytes of the body.
DecodeData ==
    \E k \in 1..(Len(wire) - pos) :
        LET chunk == SubSeq(wire, pos + 1, pos + k)
            joined == buffer \o toStringUtf8(chunk)
            lines == split(joined)
        IN  /\ dpc = "open"
            /\ pos' = pos + k
            /\ buffer' = lines[Len(lines)]
            /\ out' = out \o writeLines(SubSeq(lines, 1, Len(lines) - 1))
            /\ UNCHANGED <<text, wire, dpc, askVars, ingestVars>>

\* upstream.data.on("end", ...) once the whole body has been delivered.
DecodeEnd ==
    /\ dpc = "open"
    /\ pos = Len(wire)
    /\ out' = out \o responseOf(trim(buffer))
    /\ dpc' = "ended"
    /\ UNCHANGED <<text, wire, pos, buffer, askVars, ingestVars>>

NextDecode ==
    \/ DecodeData
    \/ DecodeEnd

SpecDecode == InitDecode /\ [][NextDecode]_vars

\* ========================================================= file discovery
\* routes/folderIngest.js: getEligibleFiles and what it calls. A path or a
\* name is the sequence of its characters.
UpperChars == <<"A", "B", "C", "D", "E", "F", "G", "H", "I", "J", "K", "L", "M", "N", "O", "P", "Q", "R", "S", "T", "U", "V", "W", "X", "Y", "Z">>
LowerChars == <<"a", "b", "c", "d", "e", "f", "g", "h", "i", "j", "k", "l", "m", "n", "o", "p", "q", "r", "s", "t", "u", "v", "w", "x", "y", "z">>

\* String.prototype.toLowerCase, startsWith, endsWith.
toLowerChar(c) ==
    IF \E i \in DOMAIN UpperChars : UpperChars[i] = c
    THEN LowerChars[CHOOSE i \in DOMAIN UpperChars : UpperChars[i] = c]
    ELSE c
toLowerCase(s) == [i \in 1..Len(s) |-> toLowerChar(s[i])]
startsWith(s, prefix) == Len(s) >= Len(prefix) /\ SubSeq(s, 1, Len(prefix)) = prefix
endsWith(s, suffix) ==
    Len(s) >= Len(suffix) /\ SubSeq(s, Len(s) - Len(suffix) + 1, Len(s)) = suffix

DEFAULT_EXCLUDED_DIRS ==
    {<<".", "g", "i", "t">>,
     <<"n", "o", "d", "e", "_", "m", "o", "d", "u", "l", "e", "s">>,
     <<"d", "i", "s", "t">>,
     <<"b", "u", "i", "l", "d">>,
     <<"o", "u", "t">>,
     <<"c", "o", "v", "e", "r", "a", "g", "e">>,
     <<".", "n", "e", "x", "t">>,
     <<".", "n", "u", "x", "t">>,
     <<"t", "a", "r", "g", "e", "t">>,
     <<"b", "i", "n">>,
     <<"o", "b", "j">>}
DEFAULT_EXCLUDED_FILE_NAMES ==
    {<<"p", "a", "c", "k", "a", "g", "e", "-", "l", "o", "c", "k", ".", "j", "s", "o", "n">>,
     <<"y", "a", "r", "n", ".", "l", "o", "c", "k">>,
     <<"p", "n", "p", "m", "-", "l", "o", "c", "k", ".", "y", "a", "m", "l">>,
     <<"b", "u", "n", ".", "l", "o", "c", "k", "b">>,
     <<"c", "o", "m", "p", "o", "s", "e", "r", ".", "l", "o", "c", "k">>,
     <<"p", "o", "e", "t", "r", "y", ".", "l", "o", "c", "k">>,
     <<"c", "a", "r", "g", "o", ".", "l", "o", "c", "k">>,
     <<"p", "i", "p", "f", "i", "l", "e", ".", "l", "o", "c", "k">>}
DEFAULT_EXCLUDED_SUFFIXES ==
    {<<".", "m", "i", "n", ".", "j", "s">>,
     <<".", "m", "i", "n", ".", "c", "s", "s">>,
     <<".", "m", "a", "p">>,
     <<".", "l", "o", "g">>,
     <<".", "t", "m", "p">>,
     <<".", "l", "o", "c", "k">>}
DotEnv == <<".", "e", "n", "v">>

ExcludeCaseSensitive(fullPath, entryName, isDirectory) ==
    IF isDirectory
    THEN entryName \in DEFAULT_EXCLUDED_DIRS
    ELSE \/ entryName \in DEFAULT_EXCLUDED_FILE_NAMES
         \/ startsWith(entryName, DotEnv)
         \/ \E suffix \in DEFAULT_EXCLUDED_SUFFIXES : endsWith(fullPath, suffix)
shouldExcludeByDefault(fullPath, entryName, isDirectory) ==
    LET lowerName == toLowerCase(entryName)
        lowerPath == toLowerCase(fullPath)
    IN  IF isDirectory
        THEN lowerName \in DEFAULT_EXCLUDED_DIRS
        ELSE \/ lowerName \in DEFAULT_EXCLUDED_FILE_NAMES
             \/ startsWith(lowerName, DotEnv)
             \/ \E suffix \in DEFAULT_EXCLUDED_SUFFIXES : endsWith(lowerPath, suffix)

createDiscoveryStats ==
    [excludedByDefaultDir |-> 0,
     excludedByDefaultFile |-> 0,
     excludedByGitignoreDir |-> 0,
     excludedByGitignoreFile |-> 0,
     maxFilesReached |-> FALSE]

\* ---- the folder: root holds x1, d1, x2; d1 holds y1, d2; d2 holds z1.
\* The names and kinds of the entries vary, the directories are directories.
RootNode == "root"
Nodes == {"x1", "d1", "x2", "y1", "d2", "z1"}
DirNodes == {"d1", "d2"}
childrenOf(n) ==
    CASE n = "root" -> <<"x1", "d1", "x2">>
      [] n = "d1" -> <<"y1", "d2">>
      [] n = "d2" -> <<"z1">>
      [] OTHER -> <<>>
parentOf(n) ==
    CASE n \in {"x1", "d1", "x2"} -> "root"
      [] n \in {"y1", "d2"} -> "d1"
      [] OTHER -> "d2"
NameOptions(n) ==
    CASE n = "x1" -> {<<"a">>, <<".", "e", "n", "v", "x">>}
      [] n = "d1" -> {<<"s", "r", "c">>, <<"B", "i", "n">>}
      [] n = "x2" -> {<<"b">>, <<"b", ".", "M", "A", "P">>}
      [] n = "y1" -> {<<"c">>, <<"B", "u", "n", ".", "l", "o", "c", "k", "b">>}
      [] n = "d2" -> {<<"l", "i", "b">>, <<"o", "u", "t">>}
      [] OTHER -> {<<"e">>, <<"e", ".", "t", "m", "p">>}
KindOptions(n) ==
    CASE n \in DirNodes -> {"dir"}
      [] n = "x1" -> {"file", "other"}
      [] n = "y1" -> {"file"}
      [] OTHER -> {"file", "absent"}

rootPath == <<"/", "r">>

\* path.join(currentDir, entry.name)
pathJoin(dir, name) == dir \o <<"/">> \o name

RECURSIVE fullPathOf(_)
fullPathOf(n) ==
    IF n = RootNode THEN rootPath ELSE pathJoin(fullPathOf(parentOf(n)), fsName[n])

\* path.relative(rootPath, targetPath) with "/" separators, for a path below
\* the root.
normalizeRelPath(targetPath, root) == SubSeq(targetPath, Len(root) + 2, Len(targetPath))

\* fs.readdirSync(currentDir, { withFileTypes: true })
readdirSync(dir) ==
    LET n == CHOOSE m \in Nodes \cup {RootNode} : fullPathOf(m) = dir
        present == SelectSeq(childrenOf(n), LAMBDA c : fsKind[c] # "absent")
    IN  [i \in 1..Len(present) |-> [name |-> fsName[present[i]], kind |-> fsKind[present[i]]]]

\* matcher.ignores(path) for the matcher loaded from the root .gitignore.
MatcherIgnoresNothing(relPath) == FALSE
matcherIgnores(relPath) == relPath \in gitignore

\* const safeMaxFiles = Math.max(1, Number(maxFiles) || 2000);
safeMaxFiles(requested) == Max(1, IF requested = 0 THEN defaultMaxFiles ELSE requested)

\* results.length >= maxFiles
CapReachedLate(count, cap) == count > cap
CapReachedNever(count, cap) == FALSE
capReached(count, cap) == count >= cap

\* stack.push(fullPath)
StackPushTwice(stk, fullPath) == Append(Append(stk, fullPath), fullPath)
stackPush(stk, fullPath) == Append(stk, fullPath)

outsideDiscover == <<askVars, decodeVars, chunkVars, storeVars, filterVars, folderVars, adhocVars, scoreVars>>

InitDiscover ==
    /\ InitAskIdle
    /\ InitAdhocIdle
    /\ InitScoreIdle
    /\ InitFolderIdle
    /\ InitFilterIdle
    /\ InitDecodeIdle
    /\ InitChunkIdle
    /\ InitStoreIdle
    /\ \E x1 \in NameOptions("x1"), d1 \in NameOptions("d1"), x2 \in NameOptions("x2"),
          y1 \in NameOptions("y1"), d2 \in NameOptions("d2"), z1 \in NameOptions("z1") :
          fsName = [n \in Nodes |->
                      CASE n = "x1" -> x1 [] n = "d1" -> d1 [] n = "x2" -> x2
                        [] n = "y1" -> y1 [] n = "d2" -> d2 [] OTHER -> z1]
    /\ fsKind \in {k \in [Nodes -> {"file", "dir", "other", "absent"}] :
                     \A n \in Nodes : k[n] \in KindOptions(n)}
    /\ gitignore \in SUBSET {normalizeRelPath(fullPathOf("x2"), rootPath),
                             normalizeRelPath(fullPathOf("d2"), rootPath) \o <<"/">>}
    /\ \E requested \in (-1)..MaxFilesBound : maxFiles = safeMaxFiles(requested)
    /\ stack = <<rootPath>>
    /\ currentDir = <<>>
    /\ entries = <<>>
    /\ results = <<>>
    /\ discoveryStats = createDiscoveryStats
    /\ visited = <<>>
    /\ gpc = "loop"

\* const currentDir = stack.pop(); const entries = fs.readdirSync(...)
PopDirectory ==
    /\ gpc = "loop"
    /\ stack # <<>>
    /\ currentDir' = stack[Len(stack)]
    /\ stack' = SubSeq(stack, 1, Len(stack) - 1)
    /\ entries' = readdirSync(stack[Len(stack)])
    /\ visited' = Append(visited, stack[Len(stack)])
    /\ gpc' = "entries"
    /\ UNCHANGED <<fsName, fsKind, gitignore, maxFiles, results, discoveryStats,
                   outsideDiscover>>

\* One iteration of the for loop on a directory entry.
VisitDirectory ==
    /\ gpc = "entries"
    /\ entries # <<>>
    /\ Head(entries).kind = "dir"
    /\ LET entry == Head(entries)
           fullPath == pathJoin(currentDir, entry.name)
           relPath == normalizeRelPath(fullPath, rootPath)
       IN  IF shouldExcludeByDefault(fullPath, entry.name, TRUE)
           THEN /\ discoveryStats' = [discoveryStats EXCEPT !.excludedByDefaultDir = @ + 1]
                /\ stack' = stack
           ELSE IF matcherIgnores(relPath \o <<"/">>)
                THEN /\ discoveryStats' =
                            [discoveryStats EXCEPT !.excludedByGitignoreDir = @ + 1]
                     /\ stack' = stack
                ELSE /\ stack' = stackPush(stack, fullPath)
                     /\ discoveryStats' = discoveryStats
    /\ entries' = Tail(entries)
    /\ UNCHANGED <<fsName, fsKind, gitignore, maxFiles, currentDir, results, visited, gpc,
                   outsideDiscover>>

\* if (!entry.isFile()) continue;
VisitOther ==
    /\ gpc = "entries"
    /\ entries # <<>>
    /\ Head(entries).kind = "other"
    /\ entries' = Tail(entries)
    /\ UNCHANGED <<fsName, fsKind, gitignore, maxFiles, stack, currentDir, results,
                   discoveryStats, visited, gpc, outsideDiscover>>

\* One iteration of the for loop on a regular file, with  break outer.
VisitFile ==
    /\ gpc = "entries"
    /\ entries # <<>>
    /\ Head(entries).kind = "file"
    /\ LET entry == Head(entries)
           fullPath == pathJoin(currentDir, entry.name)
           relPath == normalizeRelPath(fullPath, rootPath)
       IN  IF shouldExcludeByDefault(fullPath, entry.name, FALSE)
           THEN /\ discoveryStats' = [discoveryStats EXCEPT !.excludedByDefaultFile = @ + 1]
                /\ UNCHANGED <<results, gpc>>
           ELSE IF matcherIgnores(relPath)
                THEN /\ discoveryStats' =
                            [discoveryStats EXCEPT !.excludedByGitignoreFile = @ + 1]
                     /\ UNCHANGED <<results, gpc>>
                ELSE /\ results' = Append(results, fullPath)
                     /\ IF capReached(Len(results) + 1, maxFiles)
                        THEN /\ discoveryStats' =
                                    [discoveryStats EXCEPT !.maxFilesReached = TRUE]
                             /\ gpc' = "returned"
                        ELSE UNCHANGED <<discoveryStats, gpc>>
    /\ entries' = Tail(entries)
    /\ UNCHANGED <<fsName, fsKind, gitignore, maxFiles, stack, currentDir, visited,
                   outsideDiscover>>

\* The for loop has visited every entry of currentDir.
EndOfDirectory ==
    /\ gpc = "entries"
    /\ entries = <<>>
    /\ gpc' = "loop"
    /\ UNCHANGED <<fsName, fsKind, gitignore, maxFiles, stack, currentDir, entries, results,
                   discoveryStats, visited, outsideDiscover>>

\* stack.length === 0:  return { files: results, discoveryStats }
DiscoveryReturn ==
    /\ gpc = "loop"
    /\ stack = <<>>
    /\ gpc' = "returned"
    /\ UNCHANGED <<fsName, fsKind, gitignore, maxFiles, stack, currentDir, entries, results,
                   discoveryStats, visited, outsideDiscover>>

NextDiscover ==
    \/ PopDirectory
    \/ VisitDirectory
    \/ VisitOther
    \/ VisitFile
    \/ EndOfDirectory
    \/ DiscoveryReturn

SpecDiscover == InitDiscover /\ [][NextDiscover]_vars

\* ============================================================== chunkText
\* routes/folderIngest.js: chunkText(content, chunkSize, chunkOverlap), one
\* step per iteration of its for loop.

\* String.prototype.slice(start, end) for 0 <= start <= end.
slice(str, from, to) == SubSeq(str, Min(from, Len(str)) + 1, Min(to, Len(str)))

\* const safeOverlap = Math.min(Math.max(chunkOverlap, 0), chunkSize - 1);
safeOverlapOf(overlap, size) == Min(Max(overlap, 0), size - 1)

\* if (!content || content.length <= chunkSize)
WholeUnlessEmpty(str, size) == str # <<>> /\ Len(str) <= size
returnsWhole(str, size) == str = <<>> \/ Len(str) <= size

\* const step = Math.max(1, chunkSize - safeOverlap);
StepIgnoresOverlap(size, safeOverlap) == size
StepFromRawOverlap(size, safeOverlap) == size - chunkOverlap
stepOf(size, safeOverlap) == Max(1, size - safeOverlap)

\* if (end >= content.length) break;
ReachesEndStrict(end, length) == end > length
reachesEnd(end, length) == end >= length

\* A file of 10,000 characters.
ExampleContent == [i \in 1..10000 |-> IF i % 3 = 0 THEN "a" ELSE "b"]

outsideChunk == <<askVars, decodeVars, discoverVars, storeVars, filterVars, folderVars, adhocVars, scoreVars>>

InitChunk ==
    /\ InitAskIdle
    /\ InitAdhocIdle
    /\ InitScoreIdle
    /\ InitFolderIdle
    /\ InitFilterIdle
    /\ InitDecodeIdle
    /\ InitDiscoverIdle
    /\ InitStoreIdle
    /\ \/ /\ content \in SeqsUpTo({"a", "b"}, MaxContentLen)
          /\ chunkSize \in 1..MaxChunkSize
          /\ chunkOverlap \in (-1)..MaxChunkOverlap
       \/ /\ content = ExampleContent
          /\ chunkSize = 3000
          /\ chunkOverlap = 200
    /\ start = 0
    /\ chunks = <<>>
    /\ windows = <<>>
    /\ cpc = "entry"

\* if (!content || content.length <= chunkSize) return [content];
ChunkWhole ==
    /\ cpc = "entry"
    /\ returnsWhole(content, chunkSize)
    /\ chunks' = <<content>>
    /\ windows' = <<[start |-> 0, end |-> Len(content)]>>
    /\ cpc' = "returned"
    /\ UNCHANGED <<content, chunkSize, chunkOverlap, start, outsideChunk>>

\* const chunks = []; ... for (let start = 0; ...
ChunkBegin ==
    /\ cpc = "entry"
    /\ ~returnsWhole(content, chunkSize)
    /\ chunks' = <<>>
    /\ start' = 0
    /\ cpc' = "loop"
    /\ UNCHANGED <<content, chunkSize, chunkOverlap, windows, outsideChunk>>

\* The loop test and one iteration of the for loop.
ChunkStep ==
    /\ cpc = "loop"
    /\ LET step == stepOf(chunkSize, safeOverlapOf(chunkOverlap, chunkSize))
           end == Min(Len(content), start + chunkSize)
           chunk == slice(content, start, end)
       IN  IF start < Len(content)
           THEN IF chunk = <<>>
                THEN /\ start' = start + step
                     /\ UNCHANGED <<chunks, windows, cpc>>
                ELSE /\ chunks' = Append(chunks, chunk)
                     /\ windows' = Append(windows, [start |-> start, end |-> end])
                     /\ IF reachesEnd(end, Len(content))
                        THEN /\ cpc' = "returned"
                             /\ start' = start
                        ELSE /\ start' = start + step
                             /\ cpc' = cpc
           ELSE /\ cpc' = "returned"
                /\ UNCHANGED <<start, chunks, windows>>
    /\ UNCHANGED <<content, chunkSize, chunkOverlap, outsideChunk>>

NextChunk ==
    \/ ChunkWhole
    \/ ChunkBegin
    \/ ChunkStep

SpecChunk == InitChunk /\ [][NextChunk]_vars

\* chunkText is synchronous code: once called it runs to its return.
SpecChunkFair == SpecChunk /\ WF_vars(NextChunk)

\* ========================================================= document store
\* db/service.js: saveDocumentWithEmbedding with generateEmbeddingWithFallback,
\* getDocuments. A text is [src, len]: the first len characters of the text
\* src. A repoTag is the sequence of its characters.
\* String.prototype.trim
JsWhitespace == {" ", "\t", "\n", "\r"}
RECURSIVE trimString(_)
trimString(str) ==
    IF str = <<>> THEN str
    ELSE IF Head(str) \in JsWhitespace THEN trimString(Tail(str))
    ELSE IF str[Len(str)] \in JsWhitespace THEN trimString(SubSeq(str, 1, Len(str) - 1))
    ELSE str

isString(v) == v # NullValue

\* trimForEmbedding
trimForEmbedding(txt) ==
    IF txt.len = 0 \/ txt.len <= maxIngestChars
    THEN txt
    ELSE [txt EXCEPT !.len = maxIngestChars]

\* response.data.embedding of POST /api/embeddings for a prompt.
embeddingOf(txt) == <<txt.src, txt.len>>

\* The rejections of the POST of generateEmbedding.
EmbedErrors == PostErrors("batch")

\* const canRetry = isContextLengthError(error) && candidateText.length > minLength;
canRetryEmbedding(e, len) == isContextLengthError(e) /\ len > embedMinLength

\* candidateText.slice(0, Math.max(minLength, Math.floor(candidateText.length * 0.6)))
ShrinkWithoutFloor(len) == (6 * len) \div 10
shrinkCandidate(len) == Max(embedMinLength, (6 * len) \div 10)

\* typeof options.repoTag === "string" ? options.repoTag.trim() : null, then
\* repoTag || null
storedTag(optionsTag) ==
    LET t == IF isString(optionsTag) THEN trimString(optionsTag) ELSE NullValue
    IN  IF t = <<>> THEN NullValue ELSE t

\* INSERT OR REPLACE INTO documents, id being the primary key.
InsertKeepsOld(table, row) == table \cup {row}
insertOrReplace(table, row) == {r \in table : r.id # row.id} \cup {row}

\* getDocuments({ repoTag })
GetDocumentsUnscoped(table, tag) == table
getDocuments(table, tag) ==
    LET hasScope == isString(tag) /\ Len(trimString(tag)) > 0
    IN  IF hasScope THEN {r \in table : r.repoTag = trimString(tag)} ELSE table

\* saveDocumentWithEmbedding(id, txt, { repoTag }) up to the first POST of
\* generateEmbeddingWithFallback.
beginSave(c, id, txt, optionsTag) ==
    /\ ~saving[c].active
    /\ saving' = [saving EXCEPT ![c] =
                    [active |-> TRUE, id |-> id, src |-> txt.src, given |-> txt.len,
                     len |-> trimForEmbedding(txt).len, tag |-> storedTag(optionsTag),
                     attempt |-> 0]]
    /\ saveCalls' = saveCalls + 1
    /\ storeEmbedCalls' = storeEmbedCalls + 1

\* The POST rejects inside the loop with a retryable error: the candidate
\* shrinks and the next POST (of the loop, or the one after it) is issued.
embedRetry(c, e) ==
    /\ saving[c].active
    /\ saving[c].attempt < embedLoopAttempts
    /\ canRetryEmbedding(e, saving[c].len)
    /\ saving' = [saving EXCEPT ![c].len = shrinkCandidate(@), ![c].attempt = @ + 1]
    /\ storeEmbedCalls' = storeEmbedCalls + 1

\* The POST rejects and the error leaves saveDocumentWithEmbedding: throw
\* error in the loop, or the rejection of the POST after the loop.
embedThrows(c, e) ==
    /\ saving[c].active
    /\ (saving[c].attempt < embedLoopAttempts => ~canRetryEmbedding(e, saving[c].len))
    /\ saving' = [saving EXCEPT ![c] = NoSave]

\* The row db.run writes once the POST resolved.
savedRow(sv) ==
    LET textUsed == [src |-> sv.src, len |-> sv.len]
    IN  [id |-> sv.id, content |-> textUsed, embedding |-> embeddingOf(textUsed),
         repoTag |-> sv.tag]

embedResolves(c) ==
    /\ saving[c].active
    /\ db' = insertOrReplace(db, savedRow(saving[c]))
    /\ lastWrite' = (saving[c].id :> savedRow(saving[c])) @@ lastWrite
    /\ saving' = [saving EXCEPT ![c] = NoSave]

\* ---- the store under any callers of saveDocumentWithEmbedding and getDocuments
StoreTexts == {[src |-> "t1", len |-> 300], [src |-> "t2", len |-> 900]}
StoreTags == {<<"a">>, <<" ", "b">>, <<" ">>, NullValue}
QueryTags == {<<"a", " ">>, <<"b">>, <<" ">>, NullValue}

outsideStore == <<askVars, decodeVars, discoverVars, chunkVars, filterVars, folderVars, adhocVars, scoreVars>>

InitStore ==
    /\ InitAskIdle
    /\ InitAdhocIdle
    /\ InitScoreIdle
    /\ InitFolderIdle
    /\ InitFilterIdle
    /\ InitDecodeIdle
    /\ InitDiscoverIdle
    /\ InitChunkIdle
    /\ InitStoreIdle

StoreSave ==
    \E c \in Callers, id \in DocIds, txt \in StoreTexts, tag \in StoreTags :
        /\ saveCalls < MaxSaves
        /\ beginSave(c, id, txt, tag)
        /\ UNCHANGED <<db, diskFile, persistCalls, lastWrite, rows, queryTag, outsideStore>>

StoreEmbedRetry ==
    \E c \in Callers, e \in EmbedErrors :
        /\ embedRetry(c, e)
        /\ UNCHANGED <<db, diskFile, persistCalls, saveCalls, lastWrite, rows, queryTag,
                       outsideStore>>

StoreEmbedThrows ==
    \E c \in Callers, e \in EmbedErrors :
        /\ embedThrows(c, e)
        /\ UNCHANGED <<db, diskFile, persistCalls, saveCalls, storeEmbedCalls, lastWrite,
                       rows, queryTag, outsideStore>>

StoreEmbedResolves ==
    \E c \in Callers :
        /\ embedResolves(c)
        /\ UNCHANGED <<diskFile, persistCalls, saveCalls, storeEmbedCalls, rows, queryTag,
                       outsideStore>>

StoreQuery ==
    \E tag \in QueryTags :
        /\ rows' = getDocuments(db, tag)
        /\ queryTag' = tag
        /\ UNCHANGED <<db, diskFile, persistCalls, saving, saveCalls, storeEmbedCalls,
                       lastWrite, outsideStore>>

NextStore ==
    \/ StoreSave
    \/ StoreEmbedRetry
    \/ StoreEmbedThrows
    \/ StoreEmbedResolves
    \/ StoreQuery

SpecStore == InitStore /\ [][NextStore]_vars

\* ---- one caller at a time saving texts of any length
FallbackTexts == {[src |-> "t", len |-> n] : n \in {0, 300, 400, 401, 900, 5200, 12000, 12001, 13000}}

SaveAnyLength ==
    \E c \in Callers, id \in DocIds, txt \in FallbackTexts :
        /\ saveCalls < MaxFallbackSaves
        /\ \A o \in Callers : ~saving[o].active
        /\ beginSave(c, id, txt, NullValue)
        /\ UNCHANGED <<db, diskFile, persistCalls, lastWrite, rows, queryTag, outsideStore>>

NextFallback ==
    \/ SaveAnyLength
    \/ StoreEmbedRetry
    \/ StoreEmbedThrows
    \/ StoreEmbedResolves

SpecFallback == InitStore /\ [][NextFallback]_vars

\* ==================================================== filterRowsByFilePath
\* routes/rag.js: normalizePathForMatch, getDocumentPathFromId,
\* filterRowsByFilePath. An id or a path is the sequence of its characters.
replaceBackslashes(str) == [i \in 1..Len(str) |-> IF str[i] = "\\" THEN "/" ELSE str[i]]
stripDotSlash(str) == IF startsWith(str, <<".", "/">>) THEN SubSeq(str, 3, Len(str)) ELSE str

\* String.prototype.indexOf for one character.
indexOf(str, ch) ==
    IF \E i \in 1..Len(str) : str[i] = ch
    THEN (CHOOSE i \in 1..Len(str) : str[i] = ch /\ \A j \in 1..(i - 1) : str[j] # ch) - 1
    ELSE -1

NormalizeKeepsCase(input) ==
    stripDotSlash(replaceBackslashes(trimString(IF input = NullValue THEN <<>> ELSE input)))
normalizePathForMatch(input) ==
    toLowerCase(stripDotSlash(replaceBackslashes(
        trimString(IF input = NullValue THEN <<>> ELSE input))))

FilePrefix == <<"f", "i", "l", "e", ":">>

getDocumentPathFromId(id) ==
    IF ~startsWith(id, FilePrefix) THEN <<>>
    ELSE LET withoutPrefix == SubSeq(id, Len(FilePrefix) + 1, Len(id))
             firstColonIndex == indexOf(withoutPrefix, ":")
         IN  IF firstColonIndex < 0 THEN <<>>
             ELSE LET withChunk == SubSeq(withoutPrefix, firstColonIndex + 2,
                                          Len(withoutPrefix))
                      hashIndex == indexOf(withChunk, "#")
                  IN  IF hashIndex >= 0 THEN SubSeq(withChunk, 1, hashIndex) ELSE withChunk

filterRowsByFilePath(ids, filter) ==
    LET normalizedFilter == normalizePathForMatch(filter)
    IN  IF normalizedFilter = <<>> THEN ids
        ELSE {id \in ids :
                LET docPath == normalizePathForMatch(getDocumentPathFromId(id))
                IN  docPath = normalizedFilter
                    \/ endsWith(docPath, <<"/">> \o normalizedFilter)}

\* The ids and the filters tried.
SampleIds ==
    {<<"f", "i", "l", "e", ":", "t", ":", "a", "/", "B", ".", "c">>,
     <<"f", "i", "l", "e", ":", "t", ":", "a", "/", "B", ".", "c", "#", "c", "1">>,
     <<"f", "i", "l", "e", ":", "t", ":", ".", "\\", "x", "\\", "b", ".", "c">>,
     <<"f", "i", "l", "e", ":", "t">>,
     <<"u", "1">>,
     <<"f", "i", "l", "e", ":", "t", ":", "x", "a", "/", "b", ".", "c">>,
     <<"f", "i", "l", "e", ":", "t", ":", "b", ".", "c">>}
SampleFilters ==
    {<<"b", ".", "c">>,
     <<"A", "\\", "B", ".", "c">>,
     <<".", "/", "b", ".", "c">>,
     <<" ", "b", ".", "c", " ">>,
     <<"c">>,
     <<>>,
     <<" ">>,
     <<".", "/">>,
     NullValue}

outsideFilter == <<askVars, decodeVars, discoverVars, chunkVars, storeVars, folderVars, adhocVars, scoreVars>>

InitFilter ==
    /\ InitAskIdle
    /\ InitAdhocIdle
    /\ InitScoreIdle
    /\ InitFolderIdle
    /\ InitDecodeIdle
    /\ InitDiscoverIdle
    /\ InitChunkIdle
    /\ InitStoreIdle
    /\ candIds \in SUBSET SampleIds
    /\ pathFilter \in SampleFilters
    /\ filtered = {}
    /\ fpc = "call"

FilterRows ==
    /\ fpc = "call"
    /\ filtered' = filterRowsByFilePath(candIds, pathFilter)
    /\ fpc' = "returned"
    /\ UNCHANGED <<candIds, pathFilter, outsideFilter>>

NextFilter ==
    \/ FilterRows

SpecFilter == InitFilter /\ [][NextFilter]_vars

\* ====================================================== POST /ingest/folder
\* routes/folderIngest.js: the route from req.body to its response, with the
\* files getEligibleFiles returned given. The content of a file is a sequence
\* of runs [ch, n]: n times the character ch.
NulChar == "NUL"
RootBasename == <<"r">>
PreexistingRows ==
    {[id |-> <<"u", "1">>, content |-> [src |-> <<"u", "1">>, len |-> 300],
      embedding |-> <<<<"u", "1">>, 300>>, repoTag |-> NullValue]}

\* String(n) for n >= 0.
DigitChars == <<"0", "1", "2", "3", "4", "5", "6", "7", "8", "9">>
RECURSIVE decimal(_)
decimal(n) ==
    IF n < 10 THEN <<DigitChars[n + 1]>>
    ELSE decimal(n \div 10) \o <<DigitChars[(n % 10) + 1]>>

\* normalizeRepoTag
TagChars == {LowerChars[i] : i \in DOMAIN LowerChars} \cup {DigitChars[i] : i \in DOMAIN DigitChars}
                \cup {".", "_", "-"}
RECURSIVE dropOtherChars(_)
dropOtherChars(str) ==
    IF str = <<>> \/ Head(str) \in TagChars THEN str ELSE dropOtherChars(Tail(str))
\* .replace(/[^a-z0-9._-]+/g, "-")
RECURSIVE replaceOtherRuns(_)
replaceOtherRuns(str) ==
    IF str = <<>> THEN str
    ELSE IF Head(str) \in TagChars THEN <<Head(str)>> \o replaceOtherRuns(Tail(str))
    ELSE <<"-">> \o replaceOtherRuns(dropOtherChars(str))
\* .replace(/^-+|-+$/g, "")
RECURSIVE stripDashes(_)
stripDashes(str) ==
    IF str = <<>> THEN str
    ELSE IF Head(str) = "-" THEN stripDashes(Tail(str))
    ELSE IF str[Len(str)] = "-" THEN stripDashes(SubSeq(str, 1, Len(str) - 1))
    ELSE str
normalizeRepoTag(tag) ==
    stripDashes(replaceOtherRuns(toLowerCase(trimString(IF tag = NullValue THEN <<>> ELSE tag))))

\* const safeChunkSize = Math.max(500, Number(chunkSize) || 3000);
safeChunkSize == Max(minChunkSize, IF folderChunkSize = 0 THEN defaultChunkSize ELSE folderChunkSize)
\* const safeChunkOverlap = Math.max(0, Number(chunkOverlap) || 0);
safeChunkOverlap == Max(0, folderChunkOverlap)
\* const safeRepoTag = normalizeRepoTag(repoTag || path.basename(resolvedRoot));
safeRepoTag ==
    normalizeRepoTag(IF folderRepoTag = NullValue \/ folderRepoTag = <<>>
                     THEN RootBasename ELSE folderRepoTag)

\* content.length, !content.trim(), isLikelyTextFile(content)
RECURSIVE contentLength(_)
contentLength(runs) == IF runs = <<>> THEN 0 ELSE Head(runs).n + contentLength(Tail(runs))
TrimsToEmptyNever(runs) == FALSE
trimsToEmpty(runs) == \A i \in DOMAIN runs : runs[i].n = 0 \/ runs[i].ch \in JsWhitespace
isLikelyTextFile(runs) == ~(\E i \in DOMAIN runs : runs[i].n > 0 /\ runs[i].ch = NulChar)
SkipsOnlyBlank(runs) == trimsToEmpty(runs)
skipsFile(runs) == trimsToEmpty(runs) \/ ~isLikelyTextFile(runs)

\* chunkText for a content of the given length: the length of every chunk.
RECURSIVE chunkLoop(_, _, _, _)
chunkLoop(from, length, size, step) ==
    IF from >= length THEN <<>>
    ELSE LET end == Min(length, from + size)
         IN  IF reachesEnd(end, length) THEN <<end - from>>
             ELSE <<end - from>> \o chunkLoop(from + step, length, size, step)
ChunkTextWhole(length, size, overlap) == <<length>>
chunkTextLengths(length, size, overlap) ==
    IF length = 0 \/ length <= size THEN <<length>>
    ELSE chunkLoop(0, length, size, stepOf(size, safeOverlapOf(overlap, size)))

\* const documentId, const header, const text for chunk i (from 1) of m
DocumentIdWithoutSuffix(tag, relPath, i, m) == FilePrefix \o tag \o <<":">> \o relPath
documentId(tag, relPath, i, m) ==
    IF m > 1
    THEN FilePrefix \o tag \o <<":">> \o relPath \o <<"#", "c", "h", "u", "n", "k", "-">> \o decimal(i)
    ELSE FilePrefix \o tag \o <<":">> \o relPath
headerLength(tag, relPath, i, m) ==
    12 + Len(tag) + 7 + Len(relPath)
       + (IF m > 1 THEN 8 + Len(decimal(i)) + 1 + Len(decimal(m)) + 1 ELSE 0)
textOf(tag, relPath, i, m, chunkLength) ==
    [src |-> documentId(tag, relPath, i, m),
     len |-> headerLength(tag, relPath, i, m) + 2 + chunkLength]

\* formatFailureReason: the parts it joins.
formatFailureReason(e) ==
    LET httpPart == IF e.status # 0 THEN <<<<"HTTP", e.status>>>> ELSE <<>>
        dataPart == IF e.dataError # NoString THEN <<<<"response", e.dataError>>>> ELSE <<>>
        messagePart == IF e.message # NoString THEN <<<<"message", e.message>>>> ELSE <<>>
        parts == httpPart \o dataPart \o messagePart
    IN  IF Len(parts) > 0 THEN parts ELSE <<<<"Unknown ingestion failure">>>>

\* The error of fs.readFileSync.
ReadError ==
    [message |-> "EACCES: permission denied", dataError |-> NoString, status |-> 0,
     code |-> "EACCES"]

\* ---- the request and the folder
FileKinds == {"unreadable", "blank", "binary", "small", "big"}
runsOf(kind) ==
    CASE kind = "blank" -> <<[ch |-> " ", n |-> 2], [ch |-> "\n", n |-> 1]>>
      [] kind = "binary" -> <<[ch |-> "a", n |-> 2], [ch |-> NulChar, n |-> 1]>>
      [] kind = "small" -> <<[ch |-> " ", n |-> 1], [ch |-> "a", n |-> 3]>>
      [] kind = "big" -> <<[ch |-> "a", n |-> 1100]>>
      [] OTHER -> <<>>
fileOf(kind, i) ==
    [relPath |-> <<"f">> \o decimal(i), readable |-> kind # "unreadable", runs |-> runsOf(kind)]
FolderOf(kinds) == [i \in 1..Len(kinds) |-> fileOf(kinds[i], i)]
\* A folder with more unreadable files than the response lists failures.
ManyUnreadable == [i \in 1..(failuresReturned + 2) |-> "unreadable"]
\* A folder planning more documents than the response samples.
ManySmall == [i \in 1..(sampleCap + 1) |-> "small"]
FolderTags == {NullValue, <<"T", " ", "1">>, <<"!", "!">>}
ChunkParams == {[size |-> 100, overlap |-> 200], [size |-> 0, overlap |-> -5]}
\* The rejections a save of the route meets: one that the fallback retries on,
\* one that it does not.
FolderEmbedErrors ==
    {e \in EmbedErrors : e.code = "ECONNREFUSED" \/ (e.status = 400 /\ e.dataError = CtxPhrase)}

outsideFolder ==
    <<askVars, decodeVars, discoverVars, chunkVars, filterVars, adhocVars, scoreVars, rows,
      queryTag>>

InitIngestOver(folders) ==
    /\ InitAskIdle
    /\ InitAdhocIdle
    /\ InitScoreIdle
    /\ InitDecodeIdle
    /\ InitDiscoverIdle
    /\ InitChunkIdle
    /\ InitFilterIdle
    /\ db = PreexistingRows
    /\ diskFile = PreexistingRows
    /\ persistCalls = 0
    /\ saving = [c \in Callers |-> NoSave]
    /\ saveCalls = 0
    /\ storeEmbedCalls = 0
    /\ lastWrite = <<>>
    /\ rows = {}
    /\ queryTag = NullValue
    /\ folderPath \in {"missing", "notDirectory", "directory"}
    /\ dryRun \in BOOLEAN
    /\ folderRepoTag \in FolderTags
    /\ \E p \in ChunkParams : folderChunkSize = p.size /\ folderChunkOverlap = p.overlap
    /\ \E kinds \in folders :
          /\ kinds = ManySmall => dryRun
          /\ files = FolderOf(kinds)
    /\ fileIndex = 0
    /\ chunksOfFile = <<>>
    /\ index = 0
    /\ ingestedCount = 0
    /\ skippedCount = 0
    /\ failedCount = 0
    /\ chunkedFileCount = 0
    /\ plannedIngestCount = 0
    /\ skippedEmptyOrBinaryCount = 0
    /\ failures = <<>>
    /\ samplePlannedDocuments = <<>>
    /\ processed = <<>>
    /\ flushedAfter = <<>>
    /\ folderResponse = NoResponse
    /\ ipc = "request"

InitIngest == InitIngestOver(SeqsUpTo(FileKinds, MaxIngestFiles) \cup {ManyUnreadable, ManySmall})

folderLocals == <<fileIndex, chunksOfFile, index, ingestedCount, skippedCount, failedCount,
                  chunkedFileCount, plannedIngestCount, skippedEmptyOrBinaryCount, failures,
                  samplePlannedDocuments, processed, flushedAfter>>
folderRequest == <<folderPath, dryRun, folderRepoTag, folderChunkSize, folderChunkOverlap, files>>
storeState == <<db, diskFile, persistCalls, saving, saveCalls, storeEmbedCalls, lastWrite>>

folderReject(message) ==
    /\ folderResponse' = [status |-> 400, error |-> message]
    /\ ipc' = "done"
    /\ UNCHANGED <<folderRequest, folderLocals, storeState, outsideFolder>>

\* if (!folderPath)
FolderMissingPath ==
    /\ ipc = "request"
    /\ folderPath = "missing"
    /\ folderReject("Missing required field: folderPath")

\* if (!fs.existsSync(resolvedRoot) || !fs.statSync(resolvedRoot).isDirectory())
FolderNotDirectory ==
    /\ ipc = "request"
    /\ folderPath = "notDirectory"
    /\ folderReject("folderPath must be a valid directory")

\* if (!safeRepoTag)
FolderInvalidTag ==
    /\ ipc = "request"
    /\ folderPath = "directory"
    /\ safeRepoTag = <<>>
    /\ folderReject("repoTag is invalid")

\* const { files, discoveryStats } = getEligibleFiles(resolvedRoot, safeMaxFiles);
FolderDiscovered ==
    /\ ipc = "request"
    /\ folderPath = "directory"
    /\ safeRepoTag # <<>>
    /\ ipc' = "files"
    /\ UNCHANGED <<folderRequest, folderLocals, folderResponse, storeState, outsideFolder>>

\* for (const filePath of files): the file the loop body runs on next.
nextFile == files[fileIndex + 1]
takeFile ==
    /\ ipc = "files"
    /\ fileIndex < Len(files)
    /\ fileIndex' = fileIndex + 1
    /\ processed' = Append(processed, nextFile.relPath)

\* catch (fileError)
CatchCountsTwice(relPath, e) ==
    /\ failedCount' = failedCount + 2
    /\ failures' = Append(failures, [path |-> relPath, reason |-> formatFailureReason(e)])
CatchForgetsFile(relPath, e) ==
    /\ failedCount' = failedCount + 1
    /\ failures' = failures
catchFileError(relPath, e) ==
    /\ failedCount' = failedCount + 1
    /\ failures' = Append(failures, [path |-> relPath, reason |-> formatFailureReason(e)])

\* fs.readFileSync throws.
FolderReadFails ==
    /\ takeFile
    /\ ~nextFile.readable
    /\ catchFileError(nextFile.relPath, ReadError)
    /\ UNCHANGED <<folderRequest, chunksOfFile, index, ingestedCount, skippedCount,
                   chunkedFileCount, plannedIngestCount, skippedEmptyOrBinaryCount,
                   samplePlannedDocuments, flushedAfter, folderResponse, ipc, storeState,
                   outsideFolder>>

\* if (!content.trim() || !isLikelyTextFile(content)) { ...; continue; }
FolderSkipFile ==
    /\ takeFile
    /\ nextFile.readable
    /\ skipsFile(nextFile.runs)
    /\ skippedCount' = skippedCount + 1
    /\ skippedEmptyOrBinaryCount' = skippedEmptyOrBinaryCount + 1
    /\ UNCHANGED <<folderRequest, chunksOfFile, index, ingestedCount, failedCount,
                   chunkedFileCount, plannedIngestCount, failures, samplePlannedDocuments,
                   flushedAfter, folderResponse, ipc, storeState, outsideFolder>>

\* const chunks = chunkText(content, safeChunkSize, safeChunkOverlap);
FolderChunkFile ==
    /\ takeFile
    /\ nextFile.readable
    /\ ~skipsFile(nextFile.runs)
    /\ chunksOfFile' = chunkTextLengths(contentLength(nextFile.runs), safeChunkSize,
                                        safeChunkOverlap)
    /\ chunkedFileCount' = IF Len(chunksOfFile') > 1 THEN chunkedFileCount + 1
                           ELSE chunkedFileCount
    /\ index' = 0
    /\ ipc' = "chunks"
    /\ UNCHANGED <<folderRequest, ingestedCount, skippedCount, failedCount,
                   plannedIngestCount, skippedEmptyOrBinaryCount, failures,
                   samplePlannedDocuments, flushedAfter, folderResponse, storeState,
                   outsideFolder>>

\* The file and the chunk the chunk loop stands on.
currentFile == files[fileIndex]
currentId == documentId(safeRepoTag, currentFile.relPath, index + 1, Len(chunksOfFile))
currentText ==
    textOf(safeRepoTag, currentFile.relPath, index + 1, Len(chunksOfFile),
           chunksOfFile[index + 1])

\* index += 1, then index < chunks.length or the next file.
nextChunk ==
    /\ index' = index + 1
    /\ ipc' = IF index + 1 < Len(chunksOfFile) THEN "chunks" ELSE "files"

\* if (safeDryRun) { plannedIngestCount += 1; ... }
FolderPlanChunk ==
    /\ ipc = "chunks"
    /\ dryRun
    /\ plannedIngestCount' = plannedIngestCount + 1
    /\ samplePlannedDocuments' =
          IF Len(samplePlannedDocuments) < sampleCap
          THEN Append(samplePlannedDocuments,
                      [id |-> currentId, path |-> currentFile.relPath,
                       chunk |-> IF Len(chunksOfFile) > 1
                                 THEN <<index + 1, Len(chunksOfFile)>> ELSE <<1, 1>>])
          ELSE samplePlannedDocuments
    /\ nextChunk
    /\ UNCHANGED <<folderRequest, fileIndex, chunksOfFile, ingestedCount, skippedCount,
                   failedCount, chunkedFileCount, skippedEmptyOrBinaryCount, failures,
                   processed, flushedAfter, folderResponse, storeState, outsideFolder>>

\* await saveDocumentWithEmbedding(documentId, text, { repoTag: safeRepoTag });
FolderSaveChunk ==
    /\ ipc = "chunks"
    /\ ~dryRun
    /\ beginSave("c1", currentId, currentText, safeRepoTag)
    /\ ipc' = "saveAwait"
    /\ UNCHANGED <<folderRequest, folderLocals, folderResponse, db, diskFile, persistCalls,
                   lastWrite, outsideFolder>>

FolderEmbedRetry ==
    /\ ipc = "saveAwait"
    /\ \E e \in FolderEmbedErrors : embedRetry("c1", e)
    /\ UNCHANGED <<folderRequest, folderLocals, folderResponse, ipc, db, diskFile,
                   persistCalls, saveCalls, lastWrite, outsideFolder>>

\* the save throws: catch (fileError), then the next file
FolderSaveThrows ==
    /\ ipc = "saveAwait"
    /\ \E e \in FolderEmbedErrors :
          /\ embedThrows("c1", e)
          /\ catchFileError(currentFile.relPath, e)
    /\ ipc' = "files"
    /\ UNCHANGED <<folderRequest, fileIndex, chunksOfFile, index, ingestedCount,
                   skippedCount, chunkedFileCount, plannedIngestCount,
                   skippedEmptyOrBinaryCount, samplePlannedDocuments, processed,
                   flushedAfter, folderResponse, db, diskFile, persistCalls, saveCalls,
                   storeEmbedCalls, lastWrite, outsideFolder>>

\* the save resolves: ingestedCount += 1
FolderSaveResolvesAndFlushes ==
    /\ ipc = "saveAwait"
    /\ embedResolves("c1")
    /\ ingestedCount' = ingestedCount + 1
    /\ nextChunk
    /\ diskFile' = db'
    /\ persistCalls' = persistCalls + 1
    /\ UNCHANGED <<folderRequest, fileIndex, chunksOfFile, skippedCount, failedCount,
                   chunkedFileCount, plannedIngestCount, skippedEmptyOrBinaryCount,
                   failures, samplePlannedDocuments, processed, flushedAfter,
                   folderResponse, saveCalls, storeEmbedCalls, outsideFolder>>
FolderSaveResolves ==
    /\ ipc = "saveAwait"
    /\ embedResolves("c1")
    /\ ingestedCount' = ingestedCount + 1
    /\ nextChunk
    /\ UNCHANGED <<folderRequest, fileIndex, chunksOfFile, skippedCount, failedCount,
                   chunkedFileCount, plannedIngestCount, skippedEmptyOrBinaryCount,
                   failures, samplePlannedDocuments, processed, flushedAfter,
                   folderResponse, diskFile, persistCalls, saveCalls, storeEmbedCalls,
                   outsideFolder>>

\* persistDatabase
PersistTwice ==
    /\ diskFile' = db
    /\ persistCalls' = persistCalls + 2
persistDatabase ==
    /\ diskFile' = db
    /\ persistCalls' = persistCalls + 1

folderBody ==
    [status |-> 200, dryRun |-> dryRun, repoTag |-> safeRepoTag,
     totalMatched |-> Len(files), ingestedCount |-> ingestedCount,
     plannedIngestCount |-> plannedIngestCount, chunkedFileCount |-> chunkedFileCount,
     chunkSize |-> safeChunkSize,
     chunkOverlap |-> Min(safeChunkOverlap, safeChunkSize - 1),
     skippedCount |-> skippedCount, contentEmptyOrBinary |-> skippedEmptyOrBinaryCount,
     failedCount |-> failedCount, samplePlannedDocuments |-> samplePlannedDocuments,
     failures |-> slice(failures, 0, failuresReturned)]

\* after the loop: if (!safeDryRun) persistDatabase(); res.json({...})
FolderRespond ==
    /\ ipc = "files"
    /\ fileIndex = Len(files)
    /\ IF dryRun
       THEN UNCHANGED <<diskFile, persistCalls, flushedAfter>>
       ELSE persistDatabase /\ flushedAfter' = Append(flushedAfter, fileIndex)
    /\ folderResponse' = folderBody
    /\ ipc' = "done"
    /\ UNCHANGED <<folderRequest, fileIndex, chunksOfFile, index, ingestedCount,
                   skippedCount, failedCount, chunkedFileCount, plannedIngestCount,
                   skippedEmptyOrBinaryCount, failures, samplePlannedDocuments, processed,
                   db, saving, saveCalls, storeEmbedCalls, lastWrite, outsideFolder>>

NextIngest ==
    \/ FolderMissingPath
    \/ FolderNotDirectory
    \/ FolderInvalidTag
    \/ FolderDiscovered
    \/ FolderReadFails
    \/ FolderSkipFile
    \/ FolderChunkFile
    \/ FolderPlanChunk
    \/ FolderSaveChunk
    \/ FolderEmbedRetry
    \/ FolderSaveThrows
    \/ FolderSaveResolves
    \/ FolderRespond

SpecIngest == InitIngest /\ [][NextIngest]_vars

\* ---- the same request sent again after a live run has answered
ReingestFolders == {<<"big", "small">>, <<"unreadable", "blank">>, <<"binary", "big">>}
InitReingest == InitIngestOver(ReingestFolders)

FolderAgain ==
    /\ ipc = "done"
    /\ folderResponse.status = 200
    /\ ~dryRun
    /\ persistCalls < MaxRuns
    /\ fileIndex' = 0
    /\ chunksOfFile' = <<>>
    /\ index' = 0
    /\ ingestedCount' = 0
    /\ skippedCount' = 0
    /\ failedCount' = 0
    /\ chunkedFileCount' = 0
    /\ plannedIngestCount' = 0
    /\ skippedEmptyOrBinaryCount' = 0
    /\ failures' = <<>>
    /\ samplePlannedDocuments' = <<>>
    /\ processed' = <<>>
    /\ flushedAfter' = <<>>
    /\ folderResponse' = NoResponse
    /\ ipc' = "request"
    /\ UNCHANGED <<folderRequest, storeState, outsideFolder>>

NextReingest == NextIngest \/ FolderAgain
SpecReingest == InitReingest /\ [][NextReingest]_vars

\* ============================================================ POST /ingest
\* routes/rag.js: the ad-hoc ingest route from req.body to its response.
AdhocId == <<"u", "u", "i", "d">>
AdhocTexts ==
    {NoText, [given |-> TRUE, src |-> <<"t", "0">>, len |-> 0],
     [given |-> TRUE, src |-> <<"t", "1">>, len |-> 300], [given |-> TRUE, src |-> <<"t", "2">>, len |-> 900]}

\* !text
FalsyOnlyUndefined(txt) == ~txt.given
falsyText(txt) == ~txt.given \/ txt.len = 0

outsideAdhoc ==
    <<askVars, decodeVars, discoverVars, chunkVars, filterVars, folderVars, scoreVars, rows,
      queryTag>>

InitAdhoc ==
    /\ InitAskIdle
    /\ InitScoreIdle
    /\ InitDecodeIdle
    /\ InitDiscoverIdle
    /\ InitChunkIdle
    /\ InitFilterIdle
    /\ InitFolderIdle
    /\ db = PreexistingRows
    /\ diskFile = PreexistingRows
    /\ persistCalls = 0
    /\ saving = [c \in Callers |-> NoSave]
    /\ saveCalls = 0
    /\ storeEmbedCalls = 0
    /\ lastWrite = <<>>
    /\ rows = {}
    /\ queryTag = NullValue
    /\ adhocText \in AdhocTexts
    /\ adhocTag \in {NullValue, <<"T", " ", "1">>}
    /\ adhocResponse = NoResponse
    /\ apc = "request"

\* if (!text) return res.status(400).json({ error: "Missing id or text" });
AdhocMissingText ==
    /\ apc = "request"
    /\ falsyText(adhocText)
    /\ adhocResponse' = [status |-> 400, body |-> "Missing id or text"]
    /\ apc' = "done"
    /\ UNCHANGED <<adhocText, adhocTag, storeState, outsideAdhoc>>

\* const id = uuidv4(); await saveDocumentWithEmbedding(id, text, { repoTag });
AdhocSave ==
    /\ apc = "request"
    /\ ~falsyText(adhocText)
    /\ beginSave("c2", AdhocId, adhocText, adhocTag)
    /\ apc' = "saveAwait"
    /\ UNCHANGED <<adhocText, adhocTag, adhocResponse, db, diskFile, persistCalls, lastWrite,
                   outsideAdhoc>>

AdhocEmbedRetry ==
    /\ apc = "saveAwait"
    /\ \E e \in EmbedErrors : embedRetry("c2", e)
    /\ UNCHANGED <<adhocText, adhocTag, adhocResponse, apc, db, diskFile, persistCalls,
                   saveCalls, lastWrite, outsideAdhoc>>

\* catch (err): res.status(500).json({ error: "Failed to ingest document" })
AdhocSaveThrows ==
    /\ apc = "saveAwait"
    /\ \E e \in EmbedErrors : embedThrows("c2", e)
    /\ adhocResponse' = [status |-> 500, body |-> "Failed to ingest document"]
    /\ apc' = "done"
    /\ UNCHANGED <<adhocText, adhocTag, db, diskFile, persistCalls, saveCalls,
                   storeEmbedCalls, lastWrite, outsideAdhoc>>

\* the save resolves: persistDatabase(); res.json({ message })
AdhocSaveResolves ==
    /\ apc = "saveAwait"
    /\ embedResolves("c2")
    /\ diskFile' = db'
    /\ persistCalls' = persistCalls + 1
    /\ adhocResponse' = [status |-> 200, body |-> "Document ingested successfully"]
    /\ apc' = "done"
    /\ UNCHANGED <<adhocText, adhocTag, saveCalls, storeEmbedCalls, outsideAdhoc>>

NextAdhoc ==
    \/ AdhocMissingText
    \/ AdhocSave
    \/ AdhocEmbedRetry
    \/ AdhocSaveThrows
    \/ AdhocSaveResolves

\* ============================================================ any request
\* One request to any of the routes: POST /ask, POST /ask/stream,
\* POST /ingest/folder or POST /ingest.
InitRequest == Init \/ InitIngest \/ InitAdhoc
NextRequest == Next \/ NextIngest \/ NextAdhoc
SpecRequest == InitRequest /\ [][NextRequest]_vars

\* ================================================================= claims
\* The failure of a model call is handled in this step: the loop moves to its
\* next iteration or an error leaves the negotiator.
FailureStep ==
    /\ ~skipRag
    /\ pc \in {"batchAwait", "postPending", "streaming"}
    /\ (attempt' # attempt \/ thrown' # thrown)

\* The request has entered one of the two negotiators.
Negotiating == ~skipRag /\ calls > 0

\* The error is a context-too-large condition of the request's mode.
ContextTooLarge(e) ==
    IF mode = "batch" THEN isContextLengthError(e) ELSE isStreamContextRetryError(e)

ExhaustedErrors == {ExhaustedBatchError, ExhaustedStreamError}

\* C1: both negotiators issue at most 7 model calls, one per loop iteration,
\* and once the loop variable has reached 7 the request is over.
C1_AtMostSevenAttempts ==
    /\ calls <= maxAttempts
    /\ attempt <= maxAttempts
    /\ pc \in {"batchAwait", "postPending", "streaming"} =>
          (attempt < maxAttempts /\ calls = attempt + 1)
    /\ attempt = maxAttempts => pc = "done"

C1_Witness ==
    /\ mode = "stream"
    /\ pc = "done"
    /\ calls = maxAttempts
    /\ thrown = ExhaustedStreamError

\* C2: once the negotiation has started, maxCharsPerDoc is at least 400 and
\* contextLimit at least 1, and no step increases either.
C2_BoundsMonotoneAboveFloors ==
    /\ [](Negotiating => (maxCharsPerDoc >= 400 /\ contextLimit >= 1))
    /\ [][Negotiating => (maxCharsPerDoc' <= maxCharsPerDoc /\ contextLimit' <= contextLimit)]_vars

C2_Witness ==
    /\ Len(scored) >= 3
    /\ contextLimit = 2
    /\ maxCharsPerDoc = 400

\* C3: a context-too-large failure changes exactly one bound: above 400
\* characters maxCharsPerDoc becomes max(400, floor(0.7 * maxCharsPerDoc)) and
\* contextLimit stays; at 400 with contextLimit above 1, contextLimit drops by
\* one and maxCharsPerDoc stays; at 400 and 1 nothing changes and the error
\* leaves the negotiator.
C3_ExactlyOneBoundShrinks ==
    [][(FailureStep /\ ContextTooLarge(lastErr')) =>
         IF maxCharsPerDoc > 400
         THEN /\ maxCharsPerDoc' = Max(400, (7 * maxCharsPerDoc) \div 10)
              /\ contextLimit' = contextLimit
         ELSE IF contextLimit > 1
              THEN /\ contextLimit' = contextLimit - 1
                   /\ maxCharsPerDoc' = maxCharsPerDoc
              ELSE /\ contextLimit' = contextLimit
                   /\ maxCharsPerDoc' = maxCharsPerDoc
                   /\ calls' = calls
                   /\ pc' = "done"
                   /\ thrown' = lastErr']_vars

C3_Witness ==
    /\ Len(scored) = 2
    /\ contextLimit = 1
    /\ maxCharsPerDoc = 400
    /\ thrown \in ExhaustedErrors

\* C4: after every shrink the context is assembled again and a model call is
\* made with it: the context of the latest call is the one the current
\* bounds give.
C4_ShrinkIsReattempted ==
    Negotiating => context = buildContext(scored, contextLimit, maxCharsPerDoc)

\* C5 (as claimed): seven context-too-large failures end in the "exhausted"
\* error, whatever the number of ranked documents.
C5_AlwaysExhaustedError ==
    (pc = "done" /\ calls = maxAttempts /\ thrown # NoErr /\ ContextTooLarge(lastErr)) =>
        thrown \in ExhaustedErrors

\* C5 (amended): seven context-too-large failures end in the "exhausted"
\* error when at least two documents are ranked; with a single document the
\* seventh failure finds both bounds at their floors and the upstream error of
\* that attempt leaves the negotiator.
C5_ExhaustedErrorNeedsTwoDocuments ==
    (pc = "done" /\ calls = maxAttempts /\ thrown # NoErr /\ ContextTooLarge(lastErr)) =>
        IF Len(scored) >= 2
        THEN thrown = (IF mode = "batch" THEN ExhaustedBatchError ELSE ExhaustedStreamError)
        ELSE thrown = lastErr

C5_Witness ==
    /\ pc = "done"
    /\ calls = maxAttempts
    /\ Len(scored) = 1
    /\ ContextTooLarge(lastErr)
    /\ thrown = lastErr

\* C6: a request that failed because the negotiator used up its attempts or
\* its shrink headroom on context-too-large failures is answered with the
\* context-length-limit message.
C6_BudgetFailureNamesContextLimit ==
    (/\ pc = "done"
     /\ thrown # NoErr
     /\ ContextTooLarge(lastErr)
     /\ (thrown \in ExhaustedErrors \/ (contextLimit = 1 /\ maxCharsPerDoc = 400))) =>
        response.body = CtxLimitMsg

\* C7: a failure that is not context-too-large (batch: no context-length
\* message; streaming: neither the message nor status 400) ends the
\* negotiation with that error, shrinks nothing and makes no further call.
C7_OtherFailureEndsNegotiation ==
    [][(FailureStep /\ ~ContextTooLarge(lastErr')) =>
         /\ pc' = "done"
         /\ thrown' = lastErr'
         /\ contextLimit' = contextLimit
         /\ maxCharsPerDoc' = maxCharsPerDoc
         /\ attempt' = attempt
         /\ calls' = calls]_vars

C7_Witness ==
    /\ pc = "done"
    /\ calls = 2
    /\ thrown = lastErr
    /\ thrown \in PostErrors(mode)
    /\ ~ContextTooLarge(thrown)

\* C8: while an attempt of the streaming negotiator awaits its upstream head
\* nothing has been sent to the client, and all output the client received
\* comes from one attempt.
C8_NoRetryAfterOutput ==
    /\ pc = "postPending" => (~headersSent /\ ~writableEnded /\ written = <<>>)
    /\ \A i \in 1..Len(written) : written[i] = written[1]

C8_Witness ==
    /\ pc = "done"
    /\ calls = 2
    /\ written = <<1>>
    /\ thrown \in StreamErrors
    /\ contextLimit > 1

\* C9: when the client of a streaming request disconnects while the upstream
\* call is in progress (awaiting its head or being read), the upstream call
\* is aborted and its stream destroyed: the request never reads the upstream
\* stream to its end event without having aborted it.
C9_DisconnectAbortsUpstream ==
    (pc = "done" /\ clientClosed # "no" /\ thrown = NoErr) => (aborted /\ upstreamDestroyed)


\* The text the claim expects: the response fragments of the well-formed
\* lines of the body, in order, the unterminated last line included.
ExpectedText(t) == writeLines(split(t))

\* C10: whatever the division of the upstream body into chunks, the text
\* written to the client is the concatenation of the response fragments of
\* its well-formed lines.
C10_WrittenTextIsFragmentsInOrder ==
    dpc = "ended" => out = ExpectedText(text)

\* C11: with n >= 1 ranked documents the negotiation starts at
\* contextLimit = min(3, n), maxCharsPerDoc = 2500 and attempt = 0, and
\* contextLimit stays within [1, min(6, n)] for the whole negotiation.
C11_InitialBoundsAndLimitRange ==
    Negotiating =>
        /\ Len(scored) >= 1
        /\ contextLimit >= 1
        /\ contextLimit <= Min(6, Len(scored))
        /\ calls = 1 =>
              /\ attempt = 0
              /\ contextLimit = Min(3, Len(scored))
              /\ maxCharsPerDoc = 2500

C11_Witness ==
    /\ ~skipRag
    /\ Len(scored) = 7
    /\ calls = 1
    /\ pc = "batchAwait"
    /\ contextLimit = 3

\* C12: in a negotiation contextLimit is below its initial value min(3, n)
\* only when maxCharsPerDoc is at its floor of 400.
C12_DocumentsDroppedOnlyAtCharFloor ==
    (Negotiating /\ contextLimit < Min(3, Len(scored))) => maxCharsPerDoc = 400

C12_Witness ==
    /\ mode = "stream"
    /\ Len(scored) = 3
    /\ contextLimit = 2
    /\ maxCharsPerDoc = 400
    /\ pc = "done"
    /\ thrown = ExhaustedStreamError

\* C13: a request with a question and skipRag makes no embedding call, no
\* document-store read and no scoring, makes exactly one generation call once
\* it has left its start, never reaches a second attempt, and a failure of
\* that call ends the request with that one call made.
C13_DirectModeOneCallNoRetrieval ==
    (skipRag /\ question) =>
        /\ embedCalls = 0
        /\ storeReads = 0
        /\ scoreCalls = 0
        /\ attempt = 0
        /\ calls = (IF pc = "start" THEN 0 ELSE 1)
        /\ thrown # NoErr => pc = "done"

C13_Witness ==
    /\ skipRag
    /\ mode = "stream"
    /\ pc = "done"
    /\ calls = 1
    /\ thrown # NoErr
    /\ ~isCanceledError(thrown)

\* C14: a request with a question whose candidate rows are empty after the
\* scope-tag and file-path filters ends with status 404 and no generation call; the body
\* names the file when a file path was given, otherwise the repoTag when one
\* was given, otherwise says that nothing was ingested.
C14_EmptyCandidatesNotFound ==
    /\ (pc = "done" /\ question /\ ~skipRag /\ Len(scored) = 0 /\ thrown = NoErr) =>
          response.status = 404
    /\ response.status = 404 =>
          /\ Len(scored) = 0
          /\ calls = 0
          /\ response.body = (IF filePath THEN "No documents found for file"
                              ELSE IF repoTag THEN "No documents found for repoTag"
                              ELSE "No documents found. Ingest content first.")

C14_Witness ==
    /\ response.status = 404
    /\ filePath
    /\ repoTag
    /\ mode = "stream"
    /\ storeReads = 1

\* ---- discovery: what the folder holds, stated on the folder itself
RECURSIVE AncestorsOf(_)
AncestorsOf(n) ==
    IF parentOf(n) = RootNode THEN {} ELSE {parentOf(n)} \cup AncestorsOf(parentOf(n))

relPathOf(n) == normalizeRelPath(fullPathOf(n), rootPath)

\* The entry exists in the folder.
Exists(n) == fsKind[n] # "absent"

\* The file name is a lockfile name, starts with .env or ends with an
\* excluded suffix, letter case aside.
DefaultExcludedFile(n) ==
    LET lower == toLowerCase(fsName[n])
    IN  \/ lower \in DEFAULT_EXCLUDED_FILE_NAMES
        \/ startsWith(lower, DotEnv)
        \/ \E suffix \in DEFAULT_EXCLUDED_SUFFIXES : endsWith(lower, suffix)

\* The directory is in the default excluded set or ignored by the .gitignore.
PrunedDir(d) ==
    \/ toLowerCase(fsName[d]) \in DEFAULT_EXCLUDED_DIRS
    \/ (relPathOf(d) \o <<"/">>) \in gitignore

Eligible(n) ==
    /\ fsKind[n] = "file"
    /\ ~DefaultExcludedFile(n)
    /\ relPathOf(n) \notin gitignore
    /\ \A d \in AncestorsOf(n) : ~PrunedDir(d)

EligiblePaths == {fullPathOf(n) : n \in {m \in Nodes : Eligible(m)}}
ResultSet == {results[i] : i \in 1..Len(results)}
NoDuplicates(seq) == \A i, j \in 1..Len(seq) : seq[i] = seq[j] => i = j

\* The directories a full walk reads: the root and every directory with no
\* pruned directory on its path.
WalkedDirs ==
    {rootPath} \cup {fullPathOf(d) : d \in {e \in DirNodes :
                                             ~PrunedDir(e) /\ \A a \in AncestorsOf(e) : ~PrunedDir(a)}}

\* C15: getEligibleFiles never holds more than maxFiles files, for every
\* maxFiles >= 1 the route can pass.
C15_AtMostMaxFiles ==
    gpc # "idle" => (maxFiles >= 1 /\ Len(results) <= maxFiles)

C15_Witness ==
    /\ gpc = "returned"
    /\ maxFiles = 1
    /\ Len(results) = 1
    /\ discoveryStats.maxFilesReached
    /\ entries # <<>>
    /\ Cardinality(EligiblePaths) = 4

\* C16 (as claimed): the returned maxFilesReached is true exactly when the
\* folder holds eligible files beyond the returned ones.
C16_FlagIffMoreEligibleFiles ==
    gpc = "returned" =>
        (discoveryStats.maxFilesReached <=> (EligiblePaths \ ResultSet) # {})

\* C16 (amended): the returned maxFilesReached is true exactly when the
\* number of returned files has reached maxFiles; when it is false every
\* eligible file of the folder was returned, and when it is true there may or
\* may not be eligible files beyond the returned ones.
C16_FlagIffCapCountReached ==
    gpc = "returned" =>
        /\ discoveryStats.maxFilesReached <=> (Len(results) >= maxFiles)
        /\ ~discoveryStats.maxFilesReached => EligiblePaths \subseteq ResultSet
        /\ (EligiblePaths \ ResultSet) # {} => discoveryStats.maxFilesReached

C16_Witness ==
    /\ gpc = "returned"
    /\ discoveryStats.maxFilesReached
    /\ Len(results) = 3
    /\ EligiblePaths = ResultSet

\* C17: every returned path is a regular file of the folder whose name is not
\* default-excluded, that the .gitignore does not ignore, and none of whose
\* directories is default-excluded or ignored.
C17_ResultsAreNotExcluded ==
    \A i \in 1..Len(results) :
        \E n \in Nodes :
            /\ fullPathOf(n) = results[i]
            /\ fsKind[n] = "file"
            /\ ~DefaultExcludedFile(n)
            /\ relPathOf(n) \notin gitignore
            /\ \A d \in AncestorsOf(n) : ~PrunedDir(d)

C17_Witness ==
    /\ gpc = "returned"
    /\ Len(results) = 2
    /\ toLowerCase(fsName["d2"]) \in DEFAULT_EXCLUDED_DIRS
    /\ Exists("z1")
    /\ ~DefaultExcludedFile("z1")
    /\ DefaultExcludedFile("x2")
    /\ Exists("x2")
    /\ discoveryStats.excludedByDefaultDir = 1
    /\ discoveryStats.excludedByDefaultFile = 1

\* C18: a discovery that returns without the cap reached has read the root
\* and every non-excluded directory exactly once and returns every eligible
\* file exactly once; one that returns with the cap reached returns exactly
\* maxFiles distinct eligible files.
C18_AllEligibleFilesOnce ==
    gpc = "returned" =>
        /\ NoDuplicates(results)
        /\ NoDuplicates(visited)
        /\ IF discoveryStats.maxFilesReached
           THEN /\ Len(results) = maxFiles
                /\ ResultSet \subseteq EligiblePaths
           ELSE /\ ResultSet = EligiblePaths
                /\ {visited[i] : i \in 1..Len(visited)} = WalkedDirs

C18_Witness ==
    /\ gpc = "returned"
    /\ ~discoveryStats.maxFilesReached
    /\ Len(results) = 4
    /\ Len(visited) = 3
    /\ gitignore = {}

\* ---- chunkText: the returned chunks against the content
RECURSIVE Rebuild(_, _, _)
\* The first k chunks joined, every chunk after the first without its first
\* `drop` characters.
Rebuild(cs, k, drop) ==
    IF k = 0 THEN <<>>
    ELSE IF k = 1 THEN cs[1]
    ELSE Rebuild(cs, k - 1, drop) \o SubSeq(cs[k], drop + 1, Len(cs[k]))

ClampedOverlap == Min(Max(chunkOverlap, 0), chunkSize - 1)

\* C19: the windows of the returned chunks start at 0, end at the content's
\* length and leave no gap, every chunk is the slice of its window, and the
\* first chunk followed by each later chunk without its first clamped-overlap
\* characters is the content.
C19_ChunksCoverAndRebuild ==
    cpc = "returned" =>
        /\ Len(chunks) = Len(windows)
        /\ Len(chunks) >= 1
        /\ windows[1].start = 0
        /\ windows[Len(windows)].end = Len(content)
        /\ \A k \in 1..Len(windows) :
              /\ windows[k].start <= windows[k].end
              /\ chunks[k] = SubSeq(content, windows[k].start + 1, windows[k].end)
              /\ k > 1 => (/\ windows[k].start <= windows[k - 1].end
                           /\ Len(chunks[k]) > ClampedOverlap)
        /\ Rebuild(chunks, Len(chunks), ClampedOverlap) = content

C19_Witness ==
    /\ cpc = "returned"
    /\ Len(content) = 6
    /\ chunkSize = 4
    /\ chunkOverlap = 4
    /\ Len(chunks) = 3

\* C20: for content longer than chunkSize, chunk k (from 0) starts at
\* k * (chunkSize - clamped overlap), every chunk but the last has chunkSize
\* characters and ends before the content does, the last chunk ends at the
\* content's length; 10000 characters with chunkSize 3000 and overlap 200
\* give 4 chunks starting at 0, 2800, 5600, 8400.
C20_ChunkOffsetsAndLengths ==
    (cpc = "returned" /\ Len(content) > chunkSize) =>
        /\ Len(chunks) = Len(windows)
        /\ \A k \in 1..Len(windows) :
              /\ windows[k].start = (k - 1) * (chunkSize - ClampedOverlap)
              /\ Len(chunks[k]) = windows[k].end - windows[k].start
              /\ k < Len(windows) => (/\ Len(chunks[k]) = chunkSize
                                      /\ windows[k].end < Len(content))
        /\ windows[Len(windows)].end = Len(content)
        /\ (Len(content) = 10000 /\ chunkSize = 3000 /\ chunkOverlap = 200) =>
              [k \in 1..Len(windows) |-> windows[k].start] = <<0, 2800, 5600, 8400>>

C20_Witness ==
    /\ cpc = "returned"
    /\ Len(content) = 10000
    /\ chunkSize = 3000
    /\ chunkOverlap = 200
    /\ Len(chunks) = 4
    /\ windows[4].end = 10000

\* C21: content no longer than chunkSize, the empty content included, is
\* returned as the single element of the result.
C21_ShortContentIsOneChunk ==
    (cpc = "returned" /\ Len(content) <= chunkSize) => chunks = <<content>>

C21_Witness ==
    /\ cpc = "returned"
    /\ content = <<>>
    /\ chunks = <<content>>
    /\ chunkOverlap = 2

\* C22: chunkText returns for every content and every overlap, negative or
\* at least chunkSize included: the window start grows by at least 1 on
\* every iteration that is followed by another.
C22_ChunkTextTerminates ==
    /\ <>(cpc = "returned")
    /\ [][(cpc = "loop" /\ cpc' = "loop") => start' >= start + 1]_vars

C22_Witness ==
    /\ cpc = "loop"
    /\ start = 2
    /\ chunkSize = 2
    /\ chunkOverlap = 4
    /\ Len(chunks) = 2

\* ---- the store: the rows against the saves that completed
CompletedWrites == {lastWrite[i] : i \in {j \in DocIds : lastWrite[j] # NoRow}}

\* A save ends in this step without having written.
SaveFailsStep ==
    \E c \in Callers : saving[c].active /\ ~saving'[c].active /\ lastWrite' = lastWrite

\* C26: the table holds at most one row per id, namely the row (content,
\* embedding, repoTag) of the latest save of that id that completed, and a
\* save whose embedding call fails leaves the table as it was.
C26_OneRowPerIdLastWriteWins ==
    /\ [](/\ \A r1, r2 \in db : r1.id = r2.id => r1 = r2
          /\ db = CompletedWrites)
    /\ [][SaveFailsStep => db' = db]_vars

C26_Witness ==
    /\ saveCalls = 2
    /\ \A c \in Callers : ~saving[c].active
    /\ Cardinality(db) = 1
    /\ lastWrite["doc1"].content = [src |-> "t2", len |-> 400]
    /\ lastWrite["doc1"].repoTag = <<"b">>
    /\ storeEmbedCalls = 4

\* C28 (as claimed): for a non-empty repoTag T every candidate row carries
\* repoTag T.
C28_NonEmptyTagScopesRows ==
    (isString(queryTag) /\ queryTag # <<>>) => \A r \in rows : r.repoTag = queryTag

\* C28 (amended): for a repoTag T that is a string and not blank, every
\* candidate row carries T without its surrounding whitespace, so rows of
\* other scopes and untagged rows are not candidates; a blank T applies no
\* scope and every row of the table is a candidate.
C28_NonBlankTagScopesRows ==
    (isString(queryTag) /\ trimString(queryTag) # <<>>) =>
        \A r \in rows : r.repoTag = trimString(queryTag) /\ r.repoTag # NullValue

C28_Witness ==
    /\ queryTag = <<"a", " ">>
    /\ Cardinality(rows) = 1
    /\ Cardinality(db) = 2
    /\ \E r \in db : r.repoTag = NullValue

\* ---- the filter: what each sample id and filter stand for
\* The normalised path of a file id, <<>> for an id that is not a file id.
ExpectedDocPath(x) ==
    CASE x = <<"f", "i", "l", "e", ":", "t", ":", "a", "/", "B", ".", "c">> -> <<"a", "/", "b", ".", "c">>
      [] x = <<"f", "i", "l", "e", ":", "t", ":", "a", "/", "B", ".", "c", "#", "c", "1">> -> <<"a", "/", "b", ".", "c">>
      [] x = <<"f", "i", "l", "e", ":", "t", ":", ".", "\\", "x", "\\", "b", ".", "c">> -> <<"x", "/", "b", ".", "c">>
      [] x = <<"f", "i", "l", "e", ":", "t", ":", "x", "a", "/", "b", ".", "c">> -> <<"x", "a", "/", "b", ".", "c">>
      [] x = <<"f", "i", "l", "e", ":", "t", ":", "b", ".", "c">> -> <<"b", ".", "c">>
      [] OTHER -> <<>>

\* The normalised form of a filter, <<>> for the filters that normalise to
\* the empty string.
ExpectedFilter(x) ==
    CASE x = <<"b", ".", "c">> -> <<"b", ".", "c">>
      [] x = <<"A", "\\", "B", ".", "c">> -> <<"a", "/", "b", ".", "c">>
      [] x = <<".", "/", "b", ".", "c">> -> <<"b", ".", "c">>
      [] x = <<" ", "b", ".", "c", " ">> -> <<"b", ".", "c">>
      [] x = <<"c">> -> <<"c">>
      [] OTHER -> <<>>

IsFileId(x) == ExpectedDocPath(x) # <<>>

MatchesFilter(id, nf) ==
    /\ IsFileId(id)
    /\ \/ ExpectedDocPath(id) = nf
       \/ /\ Len(ExpectedDocPath(id)) > Len(nf)
          /\ SubSeq(ExpectedDocPath(id), Len(ExpectedDocPath(id)) - Len(nf),
                    Len(ExpectedDocPath(id))) = <<"/">> \o nf

\* C27 (as claimed): with a non-empty filter a row passes exactly when its id
\* is a file id whose normalised path equals the normalised filter or ends
\* with "/" and the normalised filter; an empty filter passes every row.
C27_NonEmptyFilterMatchesByPath ==
    fpc = "returned" =>
        IF pathFilter = NullValue \/ pathFilter = <<>>
        THEN filtered = candIds
        ELSE filtered = {id \in candIds : MatchesFilter(id, ExpectedFilter(pathFilter))}

\* C27 (amended): with a filter whose normalised form is not empty a row
\* passes exactly when its id is a file id whose normalised path equals the
\* normalised filter or ends with "/" and the normalised filter; a filter
\* whose normalised form is empty (missing, empty, blank, or "./") passes
\* every row.
C27_NormalisedFilterMatchesByPath ==
    fpc = "returned" =>
        IF pathFilter = NullValue \/ ExpectedFilter(pathFilter) = <<>>
        THEN filtered = candIds
        ELSE filtered = {id \in candIds : MatchesFilter(id, ExpectedFilter(pathFilter))}

C27_Witness ==
    /\ fpc = "returned"
    /\ candIds = SampleIds
    /\ pathFilter = <<"A", "\\", "B", ".", "c">>
    /\ filtered = {<<"f", "i", "l", "e", ":", "t", ":", "a", "/", "B", ".", "c">>, <<"f", "i", "l", "e", ":", "t", ":", "a", "/", "B", ".", "c", "#", "c", "1">>}

\* ---- folder ingest: what a run owes for every discovered file
\* The number of windows of the given size, start to start apart by size less
\* the overlap (at least 1), that cover a content of the given length.
ExpectedChunkCount(length, size, overlap) ==
    LET apart == Max(1, size - Min(Max(overlap, 0), size - 1))
    IN  IF length <= size THEN 1
        ELSE 1 + ((length - size + apart - 1) \div apart)
HasNul(f) == \E i \in DOMAIN f.runs : f.runs[i].ch = NulChar /\ f.runs[i].n > 0
HasVisibleChar(f) ==
    \E i \in DOMAIN f.runs : f.runs[i].ch \notin JsWhitespace /\ f.runs[i].n > 0
Ingestable(f) == f.readable /\ HasVisibleChar(f) /\ ~HasNul(f)
RECURSIVE SumOver(_, _)
SumOver(seq, i) == IF i > Len(seq) THEN 0 ELSE seq[i] + SumOver(seq, i + 1)
ExpectedPlanned ==
    SumOver([i \in 1..Len(files) |->
                IF Ingestable(files[i])
                THEN ExpectedChunkCount(contentLength(files[i].runs), safeChunkSize,
                                        safeChunkOverlap)
                ELSE 0], 1)
FolderCompleted == folderResponse.status = 200

\* C23: a folder ingest with dryRun true never calls the embedding / save
\* operation and never flushes storage, so the document store and its
\* persisted file stay as they were; its response reports ingestedCount 0 and
\* a plannedIngestCount equal to the total number of chunks of all readable,
\* non-blank, NUL-free files, which is non-zero when such a file exists.
C23_DryRunPlansWithoutStoring ==
    dryRun =>
        /\ saveCalls = 0
        /\ storeEmbedCalls = 0
        /\ persistCalls = 0
        /\ db = PreexistingRows
        /\ diskFile = PreexistingRows
        /\ FolderCompleted =>
              /\ folderResponse.ingestedCount = 0
              /\ folderResponse.plannedIngestCount = ExpectedPlanned
              /\ (\E i \in DOMAIN files : Ingestable(files[i]))
                    => folderResponse.plannedIngestCount > 0

C23_Witness ==
    /\ dryRun
    /\ FolderCompleted
    /\ Len(files) = 2
    /\ folderResponse.plannedIngestCount = 4
    /\ folderResponse.chunkedFileCount = 1

\* The ids a file owes the store when it is ingested whole.
OwedIds(f) ==
    LET m == ExpectedChunkCount(contentLength(f.runs), safeChunkSize, safeChunkOverlap)
    IN  {documentId(safeRepoTag, f.relPath, i, m) : i \in 1..m}
StoredIds == {r.id : r \in db}
\* The files of a finished run that were not read, or not saved whole.
FailedFiles ==
    {k \in DOMAIN files :
        \/ ~files[k].readable
        \/ ~dryRun /\ Ingestable(files[k]) /\ ~(OwedIds(files[k]) \subseteq StoredIds)}
FailurePaths == {failures[i].path : i \in DOMAIN failures}

\* C24: a failure while reading or saving one file never aborts a folder
\* ingestion: the run ends with its normal response after the loop body has
\* run on every discovered file in order, every file after a failing one is
\* saved (or planned) whole unless it fails itself, each failing file is
\* counted once in failedCount and recorded once with its path and a reason,
\* and the failures list of the response has at most 25 entries.
C24_FileFailuresAreContained ==
    /\ failedCount = Len(failures)
    /\ \A i, j \in DOMAIN failures : failures[i].path = failures[j].path => i = j
    /\ \A i \in DOMAIN failures :
          /\ \E k \in 1..fileIndex : files[k].relPath = failures[i].path
          /\ Len(failures[i].reason) > 0
    /\ ipc \in {"files", "done"} /\ folderPath = "directory" /\ safeRepoTag # <<>> =>
          FailurePaths = {files[k].relPath : k \in {n \in FailedFiles : n <= fileIndex}}
    /\ (ipc = "done" /\ folderPath = "directory" /\ safeRepoTag # <<>>) => FolderCompleted
    /\ FolderCompleted =>
          /\ processed = [k \in 1..Len(files) |-> files[k].relPath]
          /\ folderResponse.failedCount = Cardinality(FailedFiles)
          /\ Len(folderResponse.failures) <= 25
          /\ folderResponse.failures = SubSeq(failures, 1, Len(folderResponse.failures))
          /\ Len(failures) <= 25 => folderResponse.failures = failures

C24_Witness ==
    /\ FolderCompleted
    /\ ~dryRun
    /\ Len(files) = 2
    /\ files[1].readable
    /\ folderResponse.failedCount = 1
    /\ folderResponse.failures[1].path = files[1].relPath
    /\ folderResponse.ingestedCount = 3
    /\ OwedIds(files[2]) \subseteq StoredIds

\* The response of a run with more failing files than the response lists.
C24_CapWitness ==
    /\ FolderCompleted
    /\ folderResponse.failedCount = 27
    /\ Len(folderResponse.failures) = 25

AllFilesProcessed ==
    /\ ipc = "files"
    /\ fileIndex = Len(files)
    /\ processed = [k \in 1..Len(files) |-> files[k].relPath]
    /\ ~saving["c1"].active

\* C25: a live folder ingestion flushes storage exactly once: the flush is
\* issued when the loop body has run on every discovered file and no save is
\* in flight, it is the first one, and the response of a live run is sent
\* with that one flush done and the file holding the rows of the store; no
\* flush is issued between files or between chunks.
C25_LiveRunFlushesOnceAtTheEnd ==
    /\ [][persistCalls' # persistCalls =>
            /\ ~dryRun
            /\ AllFilesProcessed
            /\ persistCalls = 0
            /\ persistCalls' = 1
            /\ diskFile' = db
            /\ ipc' = "done"]_vars
    /\ []((FolderCompleted /\ ~dryRun) =>
            /\ persistCalls = 1
            /\ flushedAfter = <<Len(files)>>
            /\ diskFile = db)
    /\ [](ipc # "done" => persistCalls = 0)

C25_Witness ==
    /\ FolderCompleted
    /\ ~dryRun
    /\ Len(files) = 2
    /\ folderResponse.ingestedCount = 4
    /\ persistCalls = 1
    /\ Cardinality(diskFile) = 5

\* The files read whose text is blank or holds a NUL.
Skippable(f) == f.readable /\ (HasNul(f) \/ ~HasVisibleChar(f))
TakenSkippable == {k \in 1..fileIndex : Skippable(files[k])}
PlannedPaths == {samplePlannedDocuments[i].path : i \in DOMAIN samplePlannedDocuments}
\* No document of the file is stored or planned.
ProducesNothing(f) == OwedIds(f) \cap StoredIds = {} /\ f.relPath \notin PlannedPaths
\* At least one document of the file is stored, or planned (the sample of
\* planned documents lists each while it has room).
ProducesSomething(f) ==
    IF dryRun
    THEN Len(samplePlannedDocuments) < sampleCap => f.relPath \in PlannedPaths
    ELSE OwedIds(f) \cap StoredIds # {}
SkippedFilesProduceNothing ==
    /\ \A k \in TakenSkippable : ProducesNothing(files[k])
    /\ skippedCount = Cardinality(TakenSkippable)
    /\ skippedEmptyOrBinaryCount = Cardinality(TakenSkippable)
    /\ FolderCompleted =>
          /\ folderResponse.skippedCount = Cardinality({k \in DOMAIN files : Skippable(files[k])})
          /\ folderResponse.contentEmptyOrBinary = folderResponse.skippedCount
          /\ dryRun => folderResponse.plannedIngestCount
                          >= Cardinality({k \in DOMAIN files : Ingestable(files[k])})

\* C30 (as claimed): a discovered file whose text holds a NUL, or is empty
\* after trimming, produces no saved and no planned document and adds exactly
\* one to skippedCount and contentEmptyOrBinary; every other readable file
\* produces at least one document.
C30_OtherReadableFilesProduceDocuments ==
    /\ SkippedFilesProduceNothing
    /\ FolderCompleted => \A k \in DOMAIN files : Ingestable(files[k]) => ProducesSomething(files[k])

\* C30 (amended): a discovered file whose text holds a NUL, or is empty
\* after trimming, produces no saved and no planned document and adds exactly
\* one to skippedCount and contentEmptyOrBinary; every other readable file
\* produces at least one document, unless in a live run the save of its first
\* chunk fails: that file produces none and is recorded as a failure.
C30_OtherReadableFilesProduceDocumentsUnlessSaveFails ==
    /\ SkippedFilesProduceNothing
    /\ FolderCompleted =>
          \A k \in DOMAIN files :
              Ingestable(files[k]) =>
                  \/ ProducesSomething(files[k])
                  \/ ~dryRun /\ files[k].relPath \in FailurePaths

C30_Witness ==
    /\ FolderCompleted
    /\ ~dryRun
    /\ Len(files) = 2
    /\ HasNul(files[1])
    /\ Ingestable(files[2])
    /\ folderResponse.skippedCount = 1
    /\ folderResponse.failedCount = 0
    /\ folderResponse.ingestedCount = 1

\* ---- validation: the requests a route turns away
AskLacksQuestion == pc # "idle" /\ ~question
AdhocLacksText == apc # "idle" /\ (~adhocText.given \/ adhocText.len = 0)
\* The tag the folder route would use has no letter, digit, dot or underscore.
TagSource == IF folderRepoTag = NullValue \/ folderRepoTag = <<>> THEN RootBasename ELSE folderRepoTag
TagIsInvalid == \A i \in DOMAIN TagSource : toLowerChar(TagSource[i]) \notin (TagChars \ {"-"})
FolderLacksField == ipc # "idle" /\ (folderPath # "directory" \/ TagIsInvalid)
NothingStarted ==
    /\ embedCalls = 0
    /\ calls = 0
    /\ storeReads = 0
    /\ saveCalls = 0
    /\ storeEmbedCalls = 0
    /\ persistCalls = 0
    /\ \A c \in Callers : ~saving[c].active
    /\ processed = <<>>
    /\ written = <<>>

\* C29: a request that lacks its required field (an ask without question, an
\* ad-hoc ingest without text, a folder ingest without folderPath, with a
\* folderPath that is no directory or with an invalid repoTag) is answered
\* with status 400 straight from its first step, and the service makes no
\* embedding call, no generation call, no store read or write and no flush
\* for it: the store and its persisted file never change.
C29_InvalidRequestsHaveNoEffect ==
    /\ [](AskLacksQuestion =>
            /\ NothingStarted
            /\ pc \in {"start", "done"}
            /\ pc = "done" => response = MissingQuestion)
    /\ [](AdhocLacksText =>
            /\ NothingStarted
            /\ apc \in {"request", "done"}
            /\ apc = "done" => adhocResponse.status = 400)
    /\ [](FolderLacksField =>
            /\ NothingStarted
            /\ ipc \in {"request", "done"}
            /\ ipc = "done" => folderResponse.status = 400)
    /\ [][(AskLacksQuestion \/ AdhocLacksText \/ FolderLacksField)
             => UNCHANGED <<db, diskFile, lastWrite>>]_vars

C29_Witness ==
    /\ ipc = "done"
    /\ ~dryRun
    /\ Len(files) = 2
    /\ folderPath = "directory"
    /\ folderResponse = [status |-> 400, error |-> "repoTag is invalid"]
    /\ db = PreexistingRows

C29_AskWitness == pc = "done" /\ response = MissingQuestion /\ ~skipRag /\ Len(scored) > 0
C29_AdhocWitness == apc = "done" /\ adhocResponse.status = 400 /\ adhocText.given

\* ---- discovery: the exclusion counters against the entries visited
ExclusionCounters(stats) ==
    <<stats.excludedByDefaultDir, stats.excludedByDefaultFile,
      stats.excludedByGitignoreDir, stats.excludedByGitignoreFile>>
\* The counters after one more exclusion of the given kind (0: none).
CountersPlus(stats, which) ==
    [i \in 1..4 |-> ExclusionCounters(stats)[i] + (IF i = which THEN 1 ELSE 0)]
\* The counter the entry the loop stands on is to be charged to.
CounterOwed ==
    LET entry == Head(entries)
        fullPath == currentDir \o <<"/">> \o entry.name
        relPath == SubSeq(fullPath, Len(rootPath) + 2, Len(fullPath))
        isDir == entry.kind = "dir"
        byDefault == shouldExcludeByDefault(fullPath, entry.name, isDir)
        byIgnore == (IF isDir THEN relPath \o <<"/">> ELSE relPath) \in gitignore
    IN  IF entry.kind \notin {"dir", "file"} THEN 0
        ELSE IF byDefault THEN (IF isDir THEN 1 ELSE 2)
        ELSE IF byIgnore THEN (IF isDir THEN 3 ELSE 4)
        ELSE 0

\* C35: every directory entry the discovery skips adds one to exactly one of
\* the four exclusion counters: a default-excluded entry to
\* excludedByDefaultDir / File only, also when the ignore rules match it; an
\* entry matched by the ignore rules alone to excludedByGitignoreDir / File
\* only; accepted entries, entries that are neither file nor directory and
\* steps that visit no entry change no counter.
C35_OneCounterPerSkippedEntry ==
    [][IF gpc = "entries" /\ entries # <<>>
       THEN ExclusionCounters(discoveryStats') = CountersPlus(discoveryStats, CounterOwed)
       ELSE ExclusionCounters(discoveryStats') = ExclusionCounters(discoveryStats)]_vars

C35_Witness ==
    /\ gpc = "returned"
    /\ DefaultExcludedFile("x2")
    /\ Exists("x2")
    /\ relPathOf("x2") \in gitignore
    /\ ~PrunedDir("d1")
    /\ (relPathOf("d2") \o <<"/">>) \in gitignore
    /\ toLowerCase(fsName["d2"]) \notin DEFAULT_EXCLUDED_DIRS
    /\ fsKind["x1"] = "other"
    /\ ExclusionCounters(discoveryStats) = <<0, 1, 1, 0>>

\* ---- folder ingest: the ids of the documents it stores
ChunkSuffix(i) == <<"#", "c", "h", "u", "n", "k", "-">> \o decimal(i)
BaseId(f) == <<"f", "i", "l", "e", ":">> \o safeRepoTag \o <<":">> \o f.relPath
ChunksOwed(f) == ExpectedChunkCount(contentLength(f.runs), safeChunkSize, safeChunkOverlap)
\* The ids of the first j chunks of a file.
IdsUpTo(f, j) ==
    IF ChunksOwed(f) = 1 THEN (IF j = 0 THEN {} ELSE {BaseId(f)})
    ELSE {BaseId(f) \o ChunkSuffix(i) : i \in 1..j}
FolderIds == UNION {IdsUpTo(files[k], ChunksOwed(files[k])) : k \in {n \in DOMAIN files : Ingestable(files[n])}}
PreexistingIds == {r.id : r \in PreexistingRows}

CompletedFiles ==
    {k \in DOMAIN files :
        Ingestable(files[k]) /\ (dryRun \/ IdsUpTo(files[k], ChunksOwed(files[k])) \subseteq StoredIds)}
SkippedFiles == {k \in DOMAIN files : Skippable(files[k])}

\* C38: at the end of a folder ingestion every discovered file is accounted
\* for exactly once, as skipped, as failed or as a file whose chunks were all
\* processed, and totalMatched is the sum of the three counts; a live run
\* reports as ingestedCount the number of saves that succeeded and a
\* plannedIngestCount of 0, a dry run an ingestedCount of 0.
C38_EveryFileAccountedOnce ==
    FolderCompleted =>
        /\ folderResponse.totalMatched = Len(files)
        /\ folderResponse.skippedCount = Cardinality(SkippedFiles)
        /\ folderResponse.failedCount = Cardinality(FailedFiles)
        /\ SkippedFiles \cap FailedFiles = {}
        /\ SkippedFiles \cap CompletedFiles = {}
        /\ FailedFiles \cap CompletedFiles = {}
        /\ SkippedFiles \cup FailedFiles \cup CompletedFiles = DOMAIN files
        /\ folderResponse.totalMatched =
              folderResponse.skippedCount + folderResponse.failedCount + Cardinality(CompletedFiles)
        /\ IF dryRun
           THEN folderResponse.ingestedCount = 0
           ELSE /\ folderResponse.ingestedCount = Cardinality(db \ PreexistingRows)
                /\ folderResponse.ingestedCount = saveCalls - Cardinality({k \in FailedFiles : files[k].readable})
                /\ folderResponse.plannedIngestCount = 0

C38_Witness ==
    /\ FolderCompleted
    /\ ~dryRun
    /\ folderResponse.totalMatched = 2
    /\ folderResponse.skippedCount = 0
    /\ folderResponse.failedCount = 1
    /\ Cardinality(CompletedFiles) = 1
    /\ folderResponse.ingestedCount = 3
    /\ saveCalls = 4

\* ---- folder ingest: a save that fails in the middle of a file
\* The step in which the save in flight ends without a row written.
SaveFailsNow == saving["c1"].active /\ ~saving'["c1"].active /\ db' = db
StoredOf(f) == {id \in StoredIds : startsWith(id, BaseId(f))}

\* C39: when the save of chunk k of a file fails in a live folder ingestion,
\* chunks 1..k-1 of the file stay in the store and in ingestedCount, the file
\* adds exactly one to failedCount, and no further chunk of that file is
\* attempted: the loop goes on with the next file.
C39_FailedChunkKeepsEarlierChunks ==
    /\ [][SaveFailsNow =>
            /\ StoredOf(files[fileIndex]) = IdsUpTo(files[fileIndex], index)
            /\ ingestedCount' = ingestedCount
            /\ failedCount' = failedCount + 1
            /\ ipc' = "files"]_vars
    /\ [][saveCalls' > saveCalls => files[fileIndex].relPath \notin FailurePaths]_vars
    /\ []((FolderCompleted /\ ~dryRun) =>
            /\ \A k \in FailedFiles :
                  /\ Cardinality({i \in DOMAIN failures : failures[i].path = files[k].relPath}) = 1
                  /\ files[k].readable =>
                        \E j \in 0..(ChunksOwed(files[k]) - 1) :
                            StoredOf(files[k]) = IdsUpTo(files[k], j)
            /\ saveCalls = Cardinality(StoredIds \ PreexistingIds)
                              + Cardinality({k \in FailedFiles : files[k].readable}))

C39_Witness ==
    /\ FolderCompleted
    /\ ~dryRun
    /\ Len(files) = 2
    /\ ChunksOwed(files[1]) = 3
    /\ Cardinality(StoredOf(files[1])) = 1
    /\ Cardinality(StoredOf(files[2])) = 1
    /\ folderResponse.failedCount = 1
    /\ folderResponse.ingestedCount = 2
    /\ saveCalls = 3

\* ---- saveDocumentWithEmbedding: the text embedded against the text given
LeastOf(a, b) == IF a <= b THEN a ELSE b

\* C40: every row saveDocumentWithEmbedding writes holds as content a prefix
\* of the text it was given, namely the candidate on which the embedding call
\* succeeded, and as embedding the embedding of that content; the candidate of
\* a save never exceeds 12000 characters, only shrinks from one call to the
\* next, never below the smaller of 400 and its length, and a save makes at
\* most 6 embedding calls.
C40_StoredTextIsEmbeddedPrefix ==
    /\ [](\A c \in Callers :
            saving[c].active =>
                /\ saving[c].len <= LeastOf(saving[c].given, 12000)
                /\ saving[c].len >= LeastOf(400, saving[c].given)
                /\ saving[c].attempt + 1 <= 6)
    /\ [][\A c \in Callers :
            (saving[c].active /\ saving'[c].active) =>
                /\ saving'[c].len <= saving[c].len
                /\ saving'[c].len >= LeastOf(400, saving[c].len)
                /\ saving'[c].attempt # saving[c].attempt =>
                      /\ saving'[c].attempt = saving[c].attempt + 1
                      /\ saving'[c].len < saving[c].len
                      /\ storeEmbedCalls' = storeEmbedCalls + 1]_vars
    /\ [][\A c \in Callers :
            (saving[c].active /\ ~saving'[c].active) =>
                \/ db' = db /\ lastWrite' = lastWrite
                \/ LET row == lastWrite'[saving[c].id]
                   IN  /\ row \in db'
                       /\ row.content.src = saving[c].src
                       /\ row.content.len = saving[c].len
                       /\ row.content.len <= saving[c].given
                       /\ row.embedding = <<row.content.src, row.content.len>>]_vars
    /\ [](storeEmbedCalls <= 6 * saveCalls)

C40_Witness ==
    /\ saveCalls = 1
    /\ storeEmbedCalls = 6
    /\ lastWrite["doc1"].content = [src |-> "t", len |-> 933]
    /\ lastWrite["doc1"] \in db

\* A further upstream generation attempt starts: one more axios.post.
StartsAttempt == calls' = calls + 1

\* The second half of C34: the rejection of a cancelled upstream call ends
\* the request; no attempt follows it.
CanceledEndsRequest ==
    [][(pc = "streaming" /\ aborted /\ lastErr' = CanceledError) =>
        (pc' = "done" /\ calls' = calls /\ thrown' = CanceledError)]_vars

\* C34: once the client of a streaming ask has disconnected, no further
\* upstream generation attempt is started for the request, and the rejection
\* of a cancelled upstream call is never retried.
C34_NoAttemptAfterDisconnect ==
    /\ [][clientClosed # "no" => ~StartsAttempt]_vars
    /\ CanceledEndsRequest

\* ---------------------------------------------------------------------------
\* Similarity scoring: cosineSimilarity and scoreRows of routes/rag.js.
\*
\* A number is a record: NaN, or a value. A score is NaN or the quotient
\* num / sqrt(densq), kept exact as the pair (num, densq); the components of
\* the vectors are -1, 0 and 1, for which equal quotients are equal doubles.
\* ---------------------------------------------------------------------------

MaxDim == 2
MaxRows == 3

Components == {-1, 0, 1}
QueryEmbeddings == UNION {[1..k -> Components] : k \in 0..MaxDim}
DocEmbeddings == {<<1, 0>>, <<0, 1>>, <<0, 0>>, <<1>>}

Num(v) == [nan |-> FALSE, val |-> v]
NaN == [nan |-> TRUE, val |-> 0]
NaNScore == [nan |-> TRUE, num |-> 0, densq |-> 0]

\* b[i]: undefined beyond the end of b, and arithmetic on undefined gives NaN.
elementAt(b, i) == IF i <= Len(b) THEN Num(b[i]) ELSE NaN
times(x, y) == IF x.nan \/ y.nan THEN NaN ELSE Num(x.val * y.val)
plus(x, y) == IF x.nan \/ y.nan THEN NaN ELSE Num(x.val + y.val)

\* a.reduce((sum, val, i) => sum + val * b[i], 0): over the indices of a.
RECURSIVE reduceDot(_, _, _, _)
reduceDot(a, b, i, sum) ==
    IF i > Len(a) THEN sum
    ELSE reduceDot(a, b, i + 1, plus(sum, times(Num(a[i]), elementAt(b, i))))

\* a.reduce((sum, val) => sum + val * val, 0): the square of the norm.
RECURSIVE reduceSquares(_, _, _)
reduceSquares(a, i, sum) ==
    IF i > Len(a) THEN sum ELSE reduceSquares(a, i + 1, sum + a[i] * a[i])

\* dot / (normA * normB), the norms given by their squares. 0 / 0 is NaN; a
\* zero norm forces a zero or NaN dot product, so no infinity arises.
divide(dot, normASq, normBSq) ==
    IF dot.nan \/ (dot.val = 0 /\ normASq * normBSq = 0)
    THEN NaNScore
    ELSE [nan |-> FALSE, num |-> dot.val, densq |-> normASq * normBSq]

cosineSimilarity(a, b) ==
    LET dot == reduceDot(a, b, 1, Num(0))
        normASq == reduceSquares(a, 1, 0)
        normBSq == reduceSquares(b, 1, 0)
    IN  divide(dot, normASq, normBSq)

\* The sign and size of u * sqrt(m), squared: orders the quotients exactly.
signedSquare(u, m) == (IF u < 0 THEN -1 ELSE 1) * u * u * m
signOf(n) == IF n < 0 THEN -1 ELSE IF n > 0 THEN 1 ELSE 0

\* (a, b) => b.score - a.score as Array.prototype.sort reads it: negative,
\* positive, or +0 when the difference is zero or NaN.
compareScores(a, b) ==
    IF a.score.nan \/ b.score.nan
    THEN 0
    ELSE signOf(signedSquare(b.score.num, a.score.densq)
                - signedSquare(a.score.num, b.score.densq))

\* rows.map(...): one scored item per row, in the order of the rows.
scoreEach(rowList, query) ==
    [i \in 1..Len(rowList) |->
        [content |-> rowList[i].content,
         score |-> cosineSimilarity(query, rowList[i].embedding)]]

\* Whether the comparator is a consistent one on these items: being equal
\* under it is transitive.
consistentComparator(items) ==
    \A i, j, k \in 1..Len(items) :
        (compareScores(items[i], items[j]) = 0 /\ compareScores(items[j], items[k]) = 0)
            => compareScores(items[i], items[k]) = 0

\* The stable sort: each item is placed before the first item it precedes.
insertSorted(sorted, x) ==
    LET before == {k \in 1..Len(sorted) : compareScores(sorted[k], x) > 0}
        at == IF before = {} THEN Len(sorted) + 1
              ELSE CHOOSE k \in before : \A m \in before : k <= m
    IN  SubSeq(sorted, 1, at - 1) \o <<x>> \o SubSeq(sorted, at, Len(sorted))

RECURSIVE stableSort(_, _, _)
stableSort(items, i, sorted) ==
    IF i > Len(items) THEN sorted
    ELSE stableSort(items, i + 1, insertSorted(sorted, items[i]))

permutationsOf(items) ==
    {[i \in 1..Len(items) |-> items[p[i]]] :
        p \in {q \in [1..Len(items) -> 1..Len(items)] :
                  \A i, j \in 1..Len(items) : q[i] = q[j] => i = j}}

\* scored.sort(comparator): the stable order of a consistent comparator; with
\* a comparator that is not consistent the order is implementation-defined.
sortOutcomes(items) ==
    IF consistentComparator(items)
    THEN {stableSort(items, 1, <<>>)}
    ELSE permutationsOf(items)

scoreRows(rowList, query) == sortOutcomes(scoreEach(rowList, query))

\* The rows of a request: content i is the i-th row met.
RowLists ==
    UNION {{[i \in 1..n |-> [content |-> i, embedding |-> e[i]]] :
               e \in [1..n -> DocEmbeddings]} : n \in 1..MaxRows}

InitScore ==
    /\ InitAskIdle
    /\ InitDecodeIdle
    /\ InitDiscoverIdle
    /\ InitChunkIdle
    /\ InitStoreIdle
    /\ InitFilterIdle
    /\ InitFolderIdle
    /\ InitAdhocIdle
    /\ queryEmbedding \in QueryEmbeddings
    /\ docRows \in RowLists
    /\ ranked = <<>>
    /\ forward = NoScore
    /\ backward = NoScore
    /\ kpc = "rows"

outsideScore ==
    <<askVars, decodeVars, discoverVars, chunkVars, storeVars, filterVars, folderVars, adhocVars>>

\* const scored = scoreRows(rows, queryEmbedding)
ScoreRows ==
    /\ kpc = "rows"
    /\ \E r \in scoreRows(docRows, queryEmbedding) : ranked' = r
    /\ kpc' = "ranked"
    /\ UNCHANGED <<queryEmbedding, docRows, forward, backward, outsideScore>>

\* cosineSimilarity applied to the query and one row's embedding, in both
\* orders of its arguments.
CosineBothOrders ==
    /\ kpc = "ranked"
    /\ \E i \in 1..Len(docRows) :
        /\ forward' = cosineSimilarity(queryEmbedding, docRows[i].embedding)
        /\ backward' = cosineSimilarity(docRows[i].embedding, queryEmbedding)
    /\ kpc' = "compared"
    /\ UNCHANGED <<queryEmbedding, docRows, ranked, outsideScore>>

NextScore == ScoreRows \/ CosineBothOrders

SpecScore == InitScore /\ [][NextScore]_vars

definedScore(item) == ~item.score.nan

\* The parts of C31 about defined scores: descending order, and encounter
\* order among equal scores.
RankedDescendingAndStable ==
    \A i, j \in 1..Len(ranked) :
        (i < j /\ definedScore(ranked[i]) /\ definedScore(ranked[j])) =>
            /\ compareScores(ranked[i], ranked[j]) <= 0
            /\ compareScores(ranked[i], ranked[j]) = 0 => ranked[i].content < ranked[j].content

\* The part of C31 about undefined scores: none stands ahead of a defined one.
NaNRankedLast ==
    \A i, j \in 1..Len(ranked) :
        (i < j /\ ~definedScore(ranked[i])) => ~definedScore(ranked[j])

\* What scoreRows does keep: with every score defined the list is descending
\* and stable.
RankedWhenAllDefined ==
    (kpc # "rows" /\ \A i \in 1..Len(ranked) : definedScore(ranked[i]))
        => RankedDescendingAndStable

\* C31: the list scoreRows returns is in descending order of score, equal
\* scores keep their encounter order, and no document with an undefined (NaN)
\* score is ranked ahead of a document with a defined score.
C31_RankedDescendingNaNLast ==
    kpc # "rows" => (RankedDescendingAndStable /\ NaNRankedLast)

sameScore(x, y) ==
    \/ x.nan /\ y.nan
    \/ /\ ~x.nan
       /\ ~y.nan
       /\ signedSquare(x.num, y.densq) = signedSquare(y.num, x.densq)

\* What does hold: symmetry for two vectors of the same dimension.
SymmetricInEqualDimension ==
    (kpc = "compared" /\ \E i \in 1..Len(docRows) :
        /\ Len(docRows[i].embedding) = Len(queryEmbedding)
        /\ forward = cosineSimilarity(queryEmbedding, docRows[i].embedding)
        /\ backward = cosineSimilarity(docRows[i].embedding, queryEmbedding))
    => sameScore(forward, backward)

\* C32: cosine similarity is symmetric, score(a, b) = score(b, a), for every
\* pair of vectors, pairs of different dimension included (both orders then
\* give the undefined result).
C32_CosineSymmetric ==
    kpc = "compared" => sameScore(forward, backward)

\* ---------------------------------------------------------------------------
\* An ask that follows a live folder ingestion and passes the repoTag the
\* ingestion was given: POST /ask up to  const allRows = getDocuments({ repoTag }).
\* ---------------------------------------------------------------------------
AskSameTag ==
    /\ ipc = "done"
    /\ folderResponse.status = 200
    /\ ~dryRun
    /\ rows' = getDocuments(db, folderRepoTag)
    /\ queryTag' = folderRepoTag
    /\ ipc' = "asked"
    /\ UNCHANGED <<folderRequest, folderLocals, folderResponse, storeState, askVars,
                   decodeVars, discoverVars, chunkVars, filterVars, adhocVars, scoreVars>>

NextScopedAsk == NextIngest \/ AskSameTag

SpecScopedAsk == InitIngest /\ [][NextScopedAsk]_vars

\* The rows the folder ingestion saved.
FolderRows == {r \in db : r.id \in FolderIds}

\* C37: the documents a live folder ingestion saved under the repoTag T are
\* among the candidates of a later ask that passes the same repoTag T; the ask
\* does not find its scope empty.
C37_SameTagFindsIngestedDocuments ==
    ipc = "asked" => (FolderRows \subseteq rows)

\* ---------------------------------------------------------------------------
\* Two requests in one process: a folder ingestion, and an ad-hoc ingest that
\* arrives while it runs. A handler runs without interruption from one await
\* to the next, so the ad-hoc route takes its steps only while the folder
\* route stands at an await (await dbReady, await saveDocumentWithEmbedding)
\* or has answered.
\* ---------------------------------------------------------------------------
ConcurrentFolders == {<<"small">>, <<"big", "small">>, <<"unreadable", "big">>, <<"blank", "small">>}
InitConcurrent == InitIngestOver(ConcurrentFolders)

FolderAwaitPoints == {"request", "saveAwait", "done"}

\* POST /ingest is received.
AdhocArrives ==
    /\ ipc \in FolderAwaitPoints
    /\ apc = "idle"
    /\ adhocText' \in AdhocTexts
    /\ adhocTag' = NullValue
    /\ apc' = "request"
    /\ UNCHANGED <<adhocResponse, storeState, outsideAdhoc>>

AdhocStep ==
    /\ ipc \in FolderAwaitPoints
    /\ NextAdhoc

NextConcurrent ==
    \/ NextIngest
    \/ AdhocArrives
    \/ AdhocStep

SpecConcurrent == InitConcurrent /\ [][NextConcurrent]_vars

\* The folder ingestion is between its discovery and its response.
FolderInProgress == ipc \in {"files", "chunks", "saveAwait"}

\* The documents of the batch that the store file holds.
BatchOnDisk == {r.id : r \in diskFile} \cap FolderIds
PartialBatchOnDisk == BatchOnDisk # {} /\ BatchOnDisk # FolderIds

\* The flush of the folder route, after its last file.
FolderFlushes ==
    /\ ipc = "files"
    /\ ipc' = "done"
    /\ fileIndex = Len(files)
    /\ ~dryRun

\* The flush of the ad-hoc route, after its one save.
AdhocFlushes ==
    /\ apc = "saveAwait"
    /\ apc' = "done"
    /\ adhocResponse'.status = 200
    /\ UNCHANGED folderVars

\* C33: with requests interleaving at their await points, the store file
\* never holds a strict part of the documents of a folder ingestion still in
\* progress: the documents of a folder ingestion reach the file only through
\* the flush that follows its complete file set.
C33_NoPartialBatchOnDisk ==
    /\ FolderInProgress => ~PartialBatchOnDisk
    /\ BatchOnDisk # {} => flushedAfter = <<Len(files)>>

\* C33 as amended: the folder ingestion itself writes the store file only
\* through the flush that follows its complete file set; while it is in
\* progress the file holds a strict part of its documents only when another
\* ingest request has flushed the store in the meantime.
C33_FolderFlushesOnlyAtTheEnd ==
    /\ [](FolderInProgress /\ PartialBatchOnDisk => adhocResponse.status = 200)
    /\ [][diskFile' # diskFile => (FolderFlushes \/ AdhocFlushes)]_vars

C33_Witness ==
    /\ FolderInProgress
    /\ PartialBatchOnDisk
    /\ adhocResponse.status = 200
    /\ persistCalls = 1


====
